---- MODULE Spec2Model ----
(***************************************************************************)
(* A model of the prompt-enhancer service's automation layer:              *)
(*   - GeminiClient (utils/gemini_client.py): the browser session manager, *)
(*     modelled one step per statement that touches shared state or the    *)
(*     outside world, for one caller (Spec) and for concurrent callers     *)
(*     (SpecConc);                                                         *)
(*   - GeminiClient._wait_for_response: the response polling loop          *)
(*     (SpecPoll);                                                         *)
(*   - EnhancerCoordinator (enhancer.py): the backend registry (SpecCoord).*)
(***************************************************************************)
EXTENDS Integers, Sequences, FiniteSets, TLC

\* ----------------------------------------------------------------- bounds
\* Top-level calls one caller makes on the manager (Spec).
MaxOps == 3
\* Top-level calls each concurrent caller makes (SpecConc).
MaxConcOps == 2
\* Poll iterations the response wait may run before its timeout (SpecPoll).
MaxPolls == 6
\* get_service calls made on one coordinator (SpecCoord).
MaxCalls == 4
\* Distinct timestamps the clock gives during the allocations.
MaxStamps == 2
\* Distinct random name parts the temp-file facility picks from.
MaxTokens == 2
\* Durable allocations one caller makes (SpecAlloc).
MaxAllocs == 2
\* Durable allocations each concurrent caller makes (SpecAllocConc).
MaxConcAllocs == 2
\* enhance calls made on one CommandService (SpecEnhance).
MaxEnhances == 1
\* maybe_cleanup calls made on one pair (SpecCleanup).
MaxCleanups == 2

\* -------------------------------------------------------------- constants
\* Python's None for a handle or a path (handles and paths are 1, 2, ...).
None == 0
\* send_query's default max_retries.
DefaultMaxRetries == 2
\* GeminiClient.RESPONSE_STABLE_CHECKS
RESPONSE_STABLE_CHECKS == 3
\* _extract_response: a text must be longer than this.
MinResponseLen == 10
\* enhancer.py: _TEMP_CREATION_RETRIES
TEMP_CREATION_RETRIES == 5

Threads == {1, 2}

VARIABLES
    \* GeminiClient fields
    driver,             \* self._driver: None or a browser handle
    temp,               \* self._temp_profile_dir: None or a directory
    atexitRegistered,   \* self._atexit_registered
    lockOwner,          \* self._profile_lock (an RLock): 0 or the owning thread
    \* the world outside the manager
    seleniumAvailable,  \* SELENIUM_AVAILABLE
    nBrowsers,          \* browser processes started so far (handles 1..nBrowsers)
    quitCalls,          \* handle -> number of quit() calls made on it
    nDirs,              \* directories made by mkdtemp so far (1..nDirs)
    disk,               \* the temporary profile directories present on disk
    rmCalls,            \* directory -> number of rmtree attempts by _cleanup_temp_profile
    rmFailed,           \* directories whose removal was attempted and failed
    atexitCalls,        \* number of atexit.register calls
    \* each caller's position and locals
    pc, stack, exc, loc,
    \* bookkeeping about the call in progress (read by the properties only)
    op, opsLeft,
    \* _wait_for_response
    last_text, stable_count, pollState, polls, hist, lastPoll,
    \* EnhancerCoordinator
    coord, default_mode, services, nInstances, factoryCalls, lastCall, returned, callsLeft,
    \* resource pairs (enhancer.py) and CommandService.enhance (mode_command.py)
    files,              \* the files present in the root directory and the temp directory
    script_path,        \* CommandService.script_path
    auto_cleanup,       \* CommandService.auto_cleanup_enabled
    fpc, floc, fexc,    \* each caller's position, locals and pending exception
    \* bookkeeping about the call in progress (read by the properties only)
    fop, fcallsLeft, handed,
    \* _copy_profile_subset (gemini_client.py)
    profile,            \* the source profile directory: path -> kind of node
    copied,             \* what the temporary profile holds: records [path, kind, via]
    copyPos,            \* index of the allow-list entry the loop is at (0: not copying)
    \* strip_separator_lines (enhancer.py)
    sepText,            \* the argument `text`, a sequence of characters
    sepResult,          \* the value returned
    sepState,           \* "off", "called" or "returned"
    \* POST /api/v1/enhance (app.py, auth.py)
    api_key,            \* cfg.security.api_key
    cfg_mode,           \* cfg.enhancer.mode
    request,            \* the request being served: headers, query and payload
    response,           \* the response sent: status, error code, message
    appState,           \* how far the request has got
    lookups,            \* calls of coordinator.get_service made for the request
    enhanceCalls,       \* calls of service.enhance made for the request
    backendExc,         \* what service.enhance raised
    \* get_service called by request workers (enhancer.py, app.py)
    gpc, gloc,          \* each worker's position in get_service and its locals
    builtFor            \* instance -> the backend name it was constructed for

mgrVars   == <<driver, temp, atexitRegistered, lockOwner>>
worldVars == <<seleniumAvailable, nBrowsers, quitCalls, nDirs, disk, rmCalls, rmFailed, atexitCalls>>
thrVars   == <<pc, stack, exc, loc>>
callVars  == <<op, opsLeft>>
pollVars  == <<last_text, stable_count, pollState, polls, hist, lastPoll>>
coordVars == <<coord, default_mode, services, nInstances, factoryCalls, lastCall, returned, callsLeft>>
fileVars  == <<files, script_path, auto_cleanup, fpc, floc, fexc, fop, fcallsLeft, handed>>
copyVars  == <<profile, copied, copyPos>>
stripVars == <<sepText, sepResult, sepState>>
appVars   == <<api_key, cfg_mode, request, response, appState, lookups, enhanceCalls, backendExc>>
gsVars    == <<gpc, gloc, builtFor>>
extVars   == <<copyVars, stripVars, appVars, gsVars>>
vars      == <<mgrVars, worldVars, thrVars, callVars, pollVars, coordVars, fileVars, extVars>>

\* ------------------------------------------------------------- exceptions
\* An exception object: what was raised and by which send_query attempt
\* (0: not raised by an attempt's step).
NoExc == [kind |-> "none", at |-> 0]
Exc(k, a) == [kind |-> k, at |-> a]

\* ------------------------------------------------------------ call frames
NoLocals ==
    [drv |-> None, tmp |-> None, newDir |-> None, newDrv |-> None, sqDrv |-> None,
     attempt |-> 0, maxRetries |-> 0, lastError |-> NoExc, result |-> -1,
     pending |-> NoExc,
     waited |-> "",      \* how the attempt's _wait_for_response ended
     text |-> -1]        \* length of the text _extract_response read

NoOp ==
    [name |-> "none", uninit |-> FALSE, browsers0 |-> 0, dirs0 |-> 0,
     driver0 |-> None, temp0 |-> None,
     opened |-> FALSE, lastRaised |-> NoExc, prevDrv |-> None, prevTmp |-> None,
     attempts |-> 0, recreations |-> 0, extractFailedAt |-> 0, closes |-> 0]

\* What a call starts from: the manager as the caller found it (uninit: the
\* call is the first one made on a new manager).
NewOp(name, t) ==
    [NoOp EXCEPT !.name = name,
                 !.uninit = (opsLeft[t] = MaxOps /\ driver = None /\ nBrowsers = 0 /\ nDirs = 0),
                 !.browsers0 = nBrowsers, !.dirs0 = nDirs,
                 !.driver0 = driver, !.temp0 = temp]

Goto(t, label) == /\ pc' = [pc EXCEPT ![t] = label]
                  /\ UNCHANGED stack

Call(t, target, ret) == /\ pc' = [pc EXCEPT ![t] = target]
                        /\ stack' = [stack EXCEPT ![t] = <<ret>> \o @]

Return(t) == /\ pc' = [pc EXCEPT ![t] = Head(stack[t])]
             /\ stack' = [stack EXCEPT ![t] = Tail(@)]

\* raise e: the exception reaches the caller's frame.
Raise(t, e) == /\ exc' = [exc EXCEPT ![t] = e]
               /\ Return(t)

\* `with self._profile_lock:` an RLock is free for its owner.
LockFree(t) == lockOwner \in {0, t}

\* ==================================================================== close
\* close() reading the handle without taking it out of the manager.
CloseSwap_KeepsHandle(t) ==
    /\ pc[t] = "close_start"
    /\ LockFree(t)
    /\ loc' = [loc EXCEPT ![t].drv = driver]
    /\ op' = [op EXCEPT ![t].closes = @ + 1]
    /\ IF driver # None
          THEN Goto(t, "close_quit")
          ELSE Goto(t, "cleanup_start")
    /\ UNCHANGED <<mgrVars, worldVars, exc, opsLeft, pollVars, coordVars, fileVars, extVars>>

\* close(), line 122-123: swap the handle out under the lock.
CloseSwap(t) ==
    /\ pc[t] = "close_start"
    /\ LockFree(t)
    /\ loc' = [loc EXCEPT ![t].drv = driver]
    /\ driver' = None
    /\ op' = [op EXCEPT ![t].closes = @ + 1]
    /\ IF driver # None
          THEN Goto(t, "close_quit")
          ELSE Goto(t, "cleanup_start")
    /\ UNCHANGED <<temp, atexitRegistered, lockOwner, worldVars, exc, opsLeft, pollVars, coordVars, fileVars, extVars>>

\* close() without the try/except around driver.quit().
CloseQuit_Propagates(t) ==
    /\ pc[t] = "close_quit"
    /\ quitCalls' = [quitCalls EXCEPT ![loc[t].drv] = @ + 1]
    /\ \E raises \in BOOLEAN :
          IF raises THEN Raise(t, Exc("QuitFailed", 0))
                    ELSE /\ Goto(t, "cleanup_start")
                         /\ UNCHANGED exc
    /\ UNCHANGED <<mgrVars, seleniumAvailable, nBrowsers, nDirs, disk, rmCalls, rmFailed,
                   atexitCalls, loc, callVars, pollVars, coordVars, fileVars, extVars>>

\* A close() that quits every browser the manager has started, not only the
\* one whose handle it took out.
CloseQuit_QuitsAllStarted(t) ==
    /\ pc[t] = "close_quit"
    /\ quitCalls' = [b \in DOMAIN quitCalls |-> quitCalls[b] + 1]
    /\ Goto(t, "cleanup_start")
    /\ UNCHANGED <<mgrVars, seleniumAvailable, nBrowsers, nDirs, disk, rmCalls, rmFailed,
                   atexitCalls, exc, loc, callVars, pollVars, coordVars, fileVars, extVars>>

\* close(), line 124-129: driver.quit(); whether it returns or raises the
\* call goes on to _cleanup_temp_profile().
CloseQuit(t) ==
    /\ pc[t] = "close_quit"
    /\ quitCalls' = [quitCalls EXCEPT ![loc[t].drv] = @ + 1]
    /\ \E raises \in BOOLEAN :
          IF raises THEN Goto(t, "cleanup_start")   \* logged, line 128-129
                    ELSE Goto(t, "cleanup_start")
    /\ UNCHANGED <<mgrVars, seleniumAvailable, nBrowsers, nDirs, disk, rmCalls, rmFailed,
                   atexitCalls, exc, loc, callVars, pollVars, coordVars, fileVars, extVars>>

\* _cleanup_temp_profile(), line 254-257: swap the path out under the lock.
CleanupSwap(t) ==
    /\ pc[t] = "cleanup_start"
    /\ LockFree(t)
    /\ loc' = [loc EXCEPT ![t].tmp = temp]
    /\ temp' = None
    /\ IF temp # None
          THEN Goto(t, "cleanup_rm")
          ELSE Return(t)
    /\ UNCHANGED <<driver, atexitRegistered, lockOwner, worldVars, exc, callVars, pollVars, coordVars, fileVars, extVars>>

\* _cleanup_temp_profile(), line 258-262: shutil.rmtree; a failure is logged.
CleanupRmtree(t) ==
    /\ pc[t] = "cleanup_rm"
    /\ rmCalls' = [rmCalls EXCEPT ![loc[t].tmp] = @ + 1]
    /\ \E ok \in BOOLEAN :
          IF ok THEN /\ disk' = disk \ {loc[t].tmp}
                     /\ rmFailed' = rmFailed \ {loc[t].tmp}
                ELSE /\ disk' = disk
                     /\ rmFailed' = rmFailed \cup {loc[t].tmp}
    /\ Return(t)
    /\ UNCHANGED <<mgrVars, seleniumAvailable, nBrowsers, quitCalls, nDirs, atexitCalls,
                   exc, loc, callVars, pollVars, coordVars, fileVars, extVars>>

\* ============================================================== init_driver
\* init_driver(), line 83-84.
InitUnavailable(t) ==
    /\ pc[t] = "init_start"
    /\ ~seleniumAvailable
    /\ Raise(t, Exc("SeleniumUnavailable", 0))
    /\ UNCHANGED <<mgrVars, worldVars, loc, callVars, pollVars, coordVars, fileVars, extVars>>

\* init_driver() that goes on to the new session without closing the one
\* it found.
InitCloseExisting_SkipsClose(t) ==
    /\ pc[t] = "init_start"
    /\ seleniumAvailable
    /\ LockFree(t)
    /\ driver # None
    /\ lockOwner' = t
    /\ Goto(t, "init_after_close")
    /\ UNCHANGED <<driver, temp, atexitRegistered, worldVars, exc, loc, callVars, pollVars, coordVars, fileVars, extVars>>

\* init_driver(), line 86-89: an existing session is closed first, with the
\* lock held across the whole close().
InitCloseExisting(t) ==
    /\ pc[t] = "init_start"
    /\ seleniumAvailable
    /\ LockFree(t)
    /\ driver # None
    /\ lockOwner' = t
    /\ Call(t, "close_start", "init_after_close")
    /\ UNCHANGED <<driver, temp, atexitRegistered, worldVars, exc, loc, callVars, pollVars, coordVars, fileVars, extVars>>

\* init_driver(), line 86-87 with no driver held: nothing is closed.
InitNoExisting(t) ==
    /\ pc[t] = "init_start"
    /\ seleniumAvailable
    /\ LockFree(t)
    /\ driver = None
    /\ Goto(t, "init_profile")
    /\ UNCHANGED <<mgrVars, worldVars, exc, loc, callVars, pollVars, coordVars, fileVars, extVars>>

\* the end of the `with` block of line 86.
InitAfterClose(t) ==
    /\ pc[t] = "init_after_close"
    /\ lockOwner' = 0
    /\ Goto(t, "init_profile")
    /\ UNCHANGED <<driver, temp, atexitRegistered, worldVars, exc, loc, callVars, pollVars, coordVars, fileVars, extVars>>

\* init_driver(), line 91-99: the source profile is resolved, or the call fails.
InitResolveProfile(t) ==
    /\ pc[t] = "init_profile"
    /\ \E found \in BOOLEAN :
          IF found THEN /\ Goto(t, "prep_mkdtemp")
                        /\ UNCHANGED exc
                   ELSE Raise(t, Exc("NoProfile", 0))
    /\ UNCHANGED <<mgrVars, worldVars, loc, callVars, pollVars, coordVars, fileVars, extVars>>

\* _prepare_temp_profile(), line 187: mkdtemp makes a fresh directory.
PrepMkdtemp(t) ==
    /\ pc[t] = "prep_mkdtemp"
    /\ nDirs' = nDirs + 1
    /\ disk' = disk \cup {nDirs + 1}
    /\ rmCalls' = rmCalls @@ ((nDirs + 1) :> 0)
    /\ loc' = [loc EXCEPT ![t].newDir = nDirs + 1]
    /\ Goto(t, "prep_chmod")
    /\ UNCHANGED <<mgrVars, seleniumAvailable, nBrowsers, quitCalls, rmFailed, atexitCalls,
                   exc, callVars, pollVars, coordVars, fileVars, extVars>>

\* shutil.rmtree(temp_dir, ignore_errors=True) of line 192 and 199: the
\* directory is removed, or silently stays.
DiscardNewDir(t) ==
    \E removed \in BOOLEAN :
        IF removed THEN /\ disk' = disk \ {loc[t].newDir}
                        /\ UNCHANGED rmFailed
                   ELSE /\ disk' = disk
                        /\ rmFailed' = rmFailed \cup {loc[t].newDir}

\* _prepare_temp_profile(), line 189-193: os.chmod.
PrepChmod(t) ==
    /\ pc[t] = "prep_chmod"
    /\ \E ok \in BOOLEAN :
          IF ok THEN /\ Goto(t, "prep_copy")
                     /\ UNCHANGED <<exc, disk, rmFailed>>
                ELSE /\ DiscardNewDir(t)
                     /\ Raise(t, Exc("ChmodFailed", 0))
    /\ UNCHANGED <<mgrVars, seleniumAvailable, nBrowsers, quitCalls, nDirs, rmCalls, atexitCalls,
                   loc, callVars, pollVars, coordVars, fileVars, extVars>>

\* A copy failure raised with the partly built directory left where it is.
PrepCopy_LeavesDir(t) ==
    /\ pc[t] = "prep_copy"
    /\ \E ok \in BOOLEAN :
          IF ok THEN /\ Goto(t, "prep_track")
                     /\ UNCHANGED <<exc, disk, rmFailed>>
                ELSE /\ Raise(t, Exc("CopyFailed", 0))
                     /\ UNCHANGED <<disk, rmFailed>>
    /\ UNCHANGED <<mgrVars, seleniumAvailable, nBrowsers, quitCalls, nDirs, rmCalls, atexitCalls,
                   loc, callVars, pollVars, coordVars, fileVars, extVars>>

\* _prepare_temp_profile(), line 195-200: the allow-listed entries are copied
\* and the lock files stripped.
PrepCopy(t) ==
    /\ pc[t] = "prep_copy"
    /\ \E ok \in BOOLEAN :
          IF ok THEN /\ Goto(t, "prep_track")
                     /\ UNCHANGED <<exc, disk, rmFailed>>
                ELSE /\ DiscardNewDir(t)
                     /\ Raise(t, Exc("CopyFailed", 0))
    /\ UNCHANGED <<mgrVars, seleniumAvailable, nBrowsers, quitCalls, nDirs, rmCalls, atexitCalls,
                   loc, callVars, pollVars, coordVars, fileVars, extVars>>

\* _prepare_temp_profile(), line 202-203: under the lock, the tracked
\* directory (if any) is cleaned up first.
PrepTrackAcquire(t) ==
    /\ pc[t] = "prep_track"
    /\ LockFree(t)
    /\ lockOwner' = t
    /\ Call(t, "cleanup_start", "prep_after_cleanup")
    /\ UNCHANGED <<driver, temp, atexitRegistered, worldVars, exc, loc, callVars, pollVars, coordVars, fileVars, extVars>>

\* _prepare_temp_profile(), line 204: the new directory is tracked and the
\* lock released.
PrepTrackSet(t) ==
    /\ pc[t] = "prep_after_cleanup"
    /\ temp' = loc[t].newDir
    /\ lockOwner' = 0
    /\ Goto(t, "prep_atexit")
    /\ UNCHANGED <<driver, atexitRegistered, worldVars, exc, loc, callVars, pollVars, coordVars, fileVars, extVars>>

\* A registration made on every call, without the flag test.
PrepRegisterAtexit_EveryTime(t) ==
    /\ pc[t] = "prep_atexit"
    /\ atexitCalls' = atexitCalls + 1
    /\ atexitRegistered' = TRUE
    /\ Goto(t, "init_service")
    /\ UNCHANGED <<driver, temp, lockOwner, seleniumAvailable, nBrowsers, quitCalls, nDirs, disk,
                   rmCalls, rmFailed, exc, loc, callVars, pollVars, coordVars, fileVars, extVars>>

\* _register_atexit_cleanup(), line 264-268.
PrepRegisterAtexit(t) ==
    /\ pc[t] = "prep_atexit"
    /\ IF atexitRegistered
          THEN UNCHANGED <<atexitRegistered, atexitCalls>>
          ELSE /\ atexitCalls' = atexitCalls + 1
               /\ atexitRegistered' = TRUE
    /\ Goto(t, "init_service")
    /\ UNCHANGED <<driver, temp, lockOwner, seleniumAvailable, nBrowsers, quitCalls, nDirs, disk,
                   rmCalls, rmFailed, exc, loc, callVars, pollVars, coordVars, fileVars, extVars>>

\* init_driver(), line 109 (_build_service, line 173-184): outside any
\* try block, so a failure leaves the new directory tracked.
InitBuildService(t) ==
    /\ pc[t] = "init_service"
    /\ \E ok \in BOOLEAN :
          IF ok THEN /\ Goto(t, "init_firefox")
                     /\ UNCHANGED exc
                ELSE Raise(t, Exc("ServiceFailed", 0))
    /\ UNCHANGED <<mgrVars, worldVars, loc, callVars, pollVars, coordVars, fileVars, extVars>>

\* init_driver(), line 111-115: the browser process starts, or the
\* temporary profile is cleaned up before the error is raised.
InitStartFirefox(t) ==
    /\ pc[t] = "init_firefox"
    /\ \E ok \in BOOLEAN :
          IF ok THEN /\ nBrowsers' = nBrowsers + 1
                     /\ quitCalls' = quitCalls @@ ((nBrowsers + 1) :> 0)
                     /\ loc' = [loc EXCEPT ![t].newDrv = nBrowsers + 1]
                     /\ Goto(t, "init_set")
                ELSE /\ Call(t, "cleanup_start", "init_ff_raise")
                     /\ UNCHANGED <<nBrowsers, quitCalls, loc>>
    /\ UNCHANGED <<mgrVars, seleniumAvailable, nDirs, disk, rmCalls, rmFailed, atexitCalls,
                   exc, callVars, pollVars, coordVars, fileVars, extVars>>

\* init_driver(), line 115: raise RuntimeError("failed to initialize Firefox").
InitFirefoxFailed(t) ==
    /\ pc[t] = "init_ff_raise"
    /\ Raise(t, Exc("FirefoxFailed", 0))
    /\ UNCHANGED <<mgrVars, worldVars, loc, callVars, pollVars, coordVars, fileVars, extVars>>

\* init_driver(), line 117-119: the new handle is stored under the lock.
InitSetDriver(t) ==
    /\ pc[t] = "init_set"
    /\ LockFree(t)
    /\ driver' = loc[t].newDrv
    /\ Return(t)
    /\ UNCHANGED <<temp, atexitRegistered, lockOwner, worldVars, exc, loc, callVars, pollVars, coordVars, fileVars, extVars>>

\* =============================================================== send_query
\* The lengths a text extracted from the page may have.
TextLens == {0, MinResponseLen - 1, MinResponseLen, MinResponseLen + 1}

\* The max_retries arguments send_query is called with: none, one attempt,
\* and the default.
RetryArgs == 0..DefaultMaxRetries

\* An attempt's step raises: control reaches `except Exception as exc`, line 146.
SqFail(t, kind) ==
    /\ exc' = [exc EXCEPT ![t] = Exc(kind, loc[t].attempt + 1)]
    /\ Goto(t, "sq_except")

\* send_query(), line 138 with no attempt left, then line 166-167: reached
\* only when max_retries is 0, where the assertion fails.
SqLoopExit(t) ==
    /\ pc[t] = "sq_loop"
    /\ loc[t].attempt >= loc[t].maxRetries
    /\ IF loc[t].lastError = NoExc
          THEN Raise(t, Exc("AssertionError", 0))
          ELSE Raise(t, loc[t].lastError)
    /\ UNCHANGED <<mgrVars, worldVars, loc, callVars, pollVars, coordVars, fileVars, extVars>>

\* send_query(), line 140 (_require_driver, line 291-296): the attempt reads
\* the handle under the lock and raises when there is none.
SqRequireDriver(t) ==
    /\ pc[t] = "sq_loop"
    /\ loc[t].attempt < loc[t].maxRetries
    /\ LockFree(t)
    /\ loc' = [loc EXCEPT ![t].sqDrv = driver]
    /\ IF driver = None
          THEN /\ SqFail(t, "NotInitialized")
               /\ op' = [op EXCEPT ![t].attempts = @ + 1,
                                   ![t].lastRaised = Exc("NotInitialized", loc[t].attempt + 1)]
          ELSE /\ Goto(t, "sq_open")
               /\ op' = [op EXCEPT ![t].attempts = @ + 1]
               /\ UNCHANGED exc
    /\ UNCHANGED <<mgrVars, worldVars, opsLeft, pollVars, coordVars, fileVars, extVars>>

\* send_query(), line 141 (_open_gemini, line 302-311): driver.get is called
\* on the attempt's handle.
SqOpenGemini(t) ==
    /\ pc[t] = "sq_open"
    /\ \E ok \in BOOLEAN :
          IF ok THEN /\ Goto(t, "sq_find")
                     /\ op' = [op EXCEPT ![t].opened = TRUE]
                     /\ UNCHANGED exc
                ELSE /\ SqFail(t, "OpenFailed")
                     /\ op' = [op EXCEPT ![t].opened = TRUE,
                                         ![t].lastRaised = Exc("OpenFailed", loc[t].attempt + 1)]
    /\ UNCHANGED <<mgrVars, worldVars, loc, opsLeft, pollVars, coordVars, fileVars, extVars>>

\* send_query(), line 142 (_find_input_box, line 313-332).
SqFindInputBox(t) ==
    /\ pc[t] = "sq_find"
    /\ \E ok \in BOOLEAN :
          IF ok THEN /\ Goto(t, "sq_submit")
                     /\ UNCHANGED <<exc, op>>
                ELSE /\ SqFail(t, "InputNotFound")
                     /\ op' = [op EXCEPT ![t].lastRaised = Exc("InputNotFound", loc[t].attempt + 1)]
    /\ UNCHANGED <<mgrVars, worldVars, loc, opsLeft, pollVars, coordVars, fileVars, extVars>>

\* send_query(), line 143 (_submit_query, line 334-363).
SqSubmitQuery(t) ==
    /\ pc[t] = "sq_submit"
    /\ \E ok \in BOOLEAN :
          IF ok THEN /\ Goto(t, "sq_wait")
                     /\ UNCHANGED <<exc, op>>
                ELSE /\ SqFail(t, "SubmitFailed")
                     /\ op' = [op EXCEPT ![t].lastRaised = Exc("SubmitFailed", loc[t].attempt + 1)]
    /\ UNCHANGED <<mgrVars, worldVars, loc, opsLeft, pollVars, coordVars, fileVars, extVars>>

\* _wait_for_response(), line 386-388 and 396-397: the two ways the wait ends.
WaitEndings == {"stable", "timeout"}

\* A wait that raises when the timeout elapses.
SqWaitForResponse_RaisesOnTimeout(t) ==
    /\ pc[t] = "sq_wait"
    /\ \E how \in WaitEndings :
          /\ loc' = [loc EXCEPT ![t].waited = how]
          /\ IF how = "timeout"
                THEN /\ SqFail(t, "WaitTimedOut")
                     /\ op' = [op EXCEPT ![t].lastRaised = Exc("WaitTimedOut", loc[t].attempt + 1)]
                ELSE /\ Goto(t, "sq_extract")
                     /\ UNCHANGED <<exc, op>>
    /\ UNCHANGED <<mgrVars, worldVars, opsLeft, pollVars, coordVars, fileVars, extVars>>

\* send_query(), line 144 (_wait_for_response, line 365-397): the wait ends
\* by stability or by timeout and raises in neither case (SpecPoll models
\* the loop itself).
SqWaitForResponse(t) ==
    /\ pc[t] = "sq_wait"
    /\ \E how \in WaitEndings : loc' = [loc EXCEPT ![t].waited = how]
    /\ Goto(t, "sq_extract")
    /\ UNCHANGED <<mgrVars, worldVars, exc, callVars, pollVars, coordVars, fileVars, extVars>>

\* _extract_response(), line 421: the text is accepted.
ExtractAccepts(n) == n > 0 /\ n > MinResponseLen

\* send_query() with _extract_response() called after the try block: its
\* error goes straight to the caller.
SqExtractResponse_Surfaces(t) ==
    /\ pc[t] = "sq_extract"
    /\ \E n \in TextLens :
          IF ExtractAccepts(n)
             THEN /\ loc' = [loc EXCEPT ![t].text = n, ![t].result = n]
                  /\ Return(t)
                  /\ UNCHANGED <<exc, op>>
             ELSE /\ Raise(t, Exc("ExtractFailed", loc[t].attempt + 1))
                  /\ op' = [op EXCEPT ![t].lastRaised = Exc("ExtractFailed", loc[t].attempt + 1),
                                      ![t].extractFailedAt = loc[t].attempt + 1]
                  /\ loc' = [loc EXCEPT ![t].text = n]
    /\ UNCHANGED <<mgrVars, worldVars, opsLeft, pollVars, coordVars, fileVars, extVars>>

\* send_query() that closes the session before it returns the text.
SqExtractResponse_ClosesOnSuccess(t) ==
    /\ pc[t] = "sq_extract"
    /\ \E n \in TextLens :
          IF ExtractAccepts(n)
             THEN /\ loc' = [loc EXCEPT ![t].text = n, ![t].result = n]
                  /\ Goto(t, "close_start")
                  /\ UNCHANGED <<exc, op>>
             ELSE /\ SqFail(t, "ExtractFailed")
                  /\ op' = [op EXCEPT ![t].lastRaised = Exc("ExtractFailed", loc[t].attempt + 1),
                                      ![t].extractFailedAt = loc[t].attempt + 1]
                  /\ loc' = [loc EXCEPT ![t].text = n]
    /\ UNCHANGED <<mgrVars, worldVars, opsLeft, pollVars, coordVars, fileVars, extVars>>

\* send_query(), line 145 (_extract_response, line 419-426): the text is
\* returned, or the extraction error is raised inside the try block.
SqExtractResponse(t) ==
    /\ pc[t] = "sq_extract"
    /\ \E n \in TextLens :
          IF ExtractAccepts(n)
             THEN /\ loc' = [loc EXCEPT ![t].text = n, ![t].result = n]
                  /\ Return(t)
                  /\ UNCHANGED <<exc, op>>
             ELSE /\ SqFail(t, "ExtractFailed")
                  /\ op' = [op EXCEPT ![t].lastRaised = Exc("ExtractFailed", loc[t].attempt + 1),
                                      ![t].extractFailedAt = loc[t].attempt + 1]
                  /\ loc' = [loc EXCEPT ![t].text = n]
    /\ UNCHANGED <<mgrVars, worldVars, opsLeft, pollVars, coordVars, fileVars, extVars>>

\* A handler that retries on the session it has, and raises the first error
\* it saw once the attempts are used up.
SqHandle_NoTeardown(t) ==
    /\ pc[t] = "sq_except"
    /\ IF loc[t].attempt + 1 >= loc[t].maxRetries
          THEN /\ Raise(t, IF loc[t].lastError = NoExc THEN exc[t] ELSE loc[t].lastError)
               /\ UNCHANGED <<loc, op>>
          ELSE /\ loc' = [loc EXCEPT ![t].lastError = exc[t], ![t].attempt = @ + 1]
               /\ exc' = [exc EXCEPT ![t] = NoExc]
               /\ op' = [op EXCEPT ![t].prevDrv = loc[t].sqDrv, ![t].prevTmp = temp]
               /\ Goto(t, "sq_loop")
    /\ UNCHANGED <<mgrVars, worldVars, opsLeft, pollVars, coordVars, fileVars, extVars>>

\* A handler that re-raises only once the attempts are more than used up:
\* the last attempt too is followed by a recreation of the session.
SqHandle_RecreatesAfterLast(t) ==
    /\ pc[t] = "sq_except"
    /\ IF loc[t].attempt + 1 > loc[t].maxRetries
          THEN /\ loc' = [loc EXCEPT ![t].lastError = exc[t],
                                     ![t].waited = "", ![t].text = -1]
               /\ Raise(t, exc[t])
               /\ UNCHANGED op
          ELSE /\ loc' = [loc EXCEPT ![t].lastError = exc[t],
                                     ![t].waited = "", ![t].text = -1]
               /\ exc' = [exc EXCEPT ![t] = NoExc]
               /\ op' = [op EXCEPT ![t].prevDrv = loc[t].sqDrv, ![t].prevTmp = temp]
               /\ Call(t, "close_start", "sq_after_close")
    /\ UNCHANGED <<mgrVars, worldVars, opsLeft, pollVars, coordVars, fileVars, extVars>>

\* send_query(), line 146-157: the handler. On the last attempt the
\* exception is re-raised as it is; before that the session is closed.
SqHandle(t) ==
    /\ pc[t] = "sq_except"
    /\ IF loc[t].attempt + 1 >= loc[t].maxRetries
          THEN /\ loc' = [loc EXCEPT ![t].lastError = exc[t],
                                     ![t].waited = "", ![t].text = -1]
               /\ Raise(t, exc[t])
               /\ UNCHANGED op
          ELSE /\ loc' = [loc EXCEPT ![t].lastError = exc[t],
                                     ![t].waited = "", ![t].text = -1]
               /\ exc' = [exc EXCEPT ![t] = NoExc]
               /\ op' = [op EXCEPT ![t].prevDrv = loc[t].sqDrv, ![t].prevTmp = temp]
               /\ Call(t, "close_start", "sq_after_close")
    /\ UNCHANGED <<mgrVars, worldVars, opsLeft, pollVars, coordVars, fileVars, extVars>>

\* send_query(), line 158-159: init_driver() is called again.
SqReinit(t) ==
    /\ pc[t] = "sq_after_close"
    /\ op' = [op EXCEPT ![t].recreations = @ + 1]
    /\ Call(t, "init_start", "sq_after_init")
    /\ UNCHANGED <<mgrVars, worldVars, exc, loc, opsLeft, pollVars, coordVars, fileVars, extVars>>

\* A handler that swallows a failed re-initialization and goes on to the
\* next attempt.
SqAfterReinit_Swallows(t) ==
    /\ pc[t] = "sq_after_init"
    /\ loc' = [loc EXCEPT ![t].attempt = @ + 1]
    /\ exc' = [exc EXCEPT ![t] = NoExc]
    /\ Goto(t, "sq_loop")
    /\ UNCHANGED <<mgrVars, worldVars, callVars, pollVars, coordVars, fileVars, extVars>>

\* send_query(), line 160-165: a failed re-initialization is raised; after a
\* successful one the loop goes on to the next attempt.
SqAfterReinit(t) ==
    /\ pc[t] = "sq_after_init"
    /\ IF exc[t] # NoExc
          THEN /\ Return(t)
               /\ UNCHANGED loc
          ELSE /\ loc' = [loc EXCEPT ![t].attempt = @ + 1]
               /\ Goto(t, "sq_loop")
    /\ UNCHANGED <<mgrVars, worldVars, exc, callVars, pollVars, coordVars, fileVars, extVars>>

\* ============================================================== call_gemini
\* call_gemini(), line 43-45: the exception is wrapped in a RuntimeError.
Wrapped(e) == IF e = NoExc THEN NoExc ELSE Exc("EnhancementFailed", 0)

\* call_gemini(), line 27-37: a new client is built and init_driver() called.
CallGemini(t) ==
    /\ pc[t] = "idle"
    /\ opsLeft[t] = MaxOps
    /\ driver = None /\ temp = None /\ nBrowsers = 0 /\ nDirs = 0
    /\ opsLeft' = [opsLeft EXCEPT ![t] = 0]
    /\ op' = [op EXCEPT ![t] = NewOp("call_gemini", t)]
    /\ loc' = [loc EXCEPT ![t] = NoLocals]
    /\ exc' = [exc EXCEPT ![t] = NoExc]
    /\ Call(t, "init_start", "cg_after_init")
    /\ UNCHANGED <<mgrVars, worldVars, pollVars, coordVars, fileVars, extVars>>

\* call_gemini(), line 37-39 and 46-48: after init_driver() either
\* send_query(query_text) is called, or the finally block closes the client.
CgAfterInit(t) ==
    /\ pc[t] = "cg_after_init"
    /\ IF exc[t] # NoExc
          THEN /\ loc' = [loc EXCEPT ![t].pending = Wrapped(exc[t])]
               /\ exc' = [exc EXCEPT ![t] = NoExc]
               /\ Call(t, "close_start", "cg_final")
          ELSE /\ loc' = [loc EXCEPT ![t].maxRetries = DefaultMaxRetries, ![t].attempt = 0]
               /\ Call(t, "sq_loop", "cg_after_sq")
               /\ UNCHANGED exc
    /\ UNCHANGED <<mgrVars, worldVars, callVars, pollVars, coordVars, fileVars, extVars>>

\* call_gemini() without its finally block.
CgAfterSendQuery_NoClose(t) ==
    /\ pc[t] = "cg_after_sq"
    /\ loc' = [loc EXCEPT ![t].pending = Wrapped(exc[t])]
    /\ exc' = [exc EXCEPT ![t] = NoExc]
    /\ Goto(t, "cg_final")
    /\ UNCHANGED <<mgrVars, worldVars, callVars, pollVars, coordVars, fileVars, extVars>>

\* call_gemini(), line 39-48: after send_query() the finally block closes
\* the client.
CgAfterSendQuery(t) ==
    /\ pc[t] = "cg_after_sq"
    /\ loc' = [loc EXCEPT ![t].pending = Wrapped(exc[t])]
    /\ exc' = [exc EXCEPT ![t] = NoExc]
    /\ Call(t, "close_start", "cg_final")
    /\ UNCHANGED <<mgrVars, worldVars, callVars, pollVars, coordVars, fileVars, extVars>>

\* call_gemini(), line 45 and 50-54: the wrapped error is raised, or the
\* response (never blank: it passed _extract_response) is returned.
CgFinish(t) ==
    /\ pc[t] = "cg_final"
    /\ exc' = [exc EXCEPT ![t] = loc[t].pending]
    /\ Goto(t, "cg_done")
    /\ UNCHANGED <<mgrVars, worldVars, loc, callVars, pollVars, coordVars, fileVars, extVars>>

\* ============================================================== the callers
StartOp(t, name) ==
    /\ pc[t] = "idle"
    /\ opsLeft[t] > 0
    /\ opsLeft' = [opsLeft EXCEPT ![t] = @ - 1]
    /\ op' = [op EXCEPT ![t] = NewOp(name, t)]
    /\ exc' = [exc EXCEPT ![t] = NoExc]

CallInitDriver(t) ==
    /\ StartOp(t, "init_driver")
    /\ loc' = [loc EXCEPT ![t] = NoLocals]
    /\ Call(t, "init_start", "idle")
    /\ UNCHANGED <<mgrVars, worldVars, pollVars, coordVars, fileVars, extVars>>

CallClose(t) ==
    /\ StartOp(t, "close")
    /\ loc' = [loc EXCEPT ![t] = NoLocals]
    /\ Call(t, "close_start", "idle")
    /\ UNCHANGED <<mgrVars, worldVars, pollVars, coordVars, fileVars, extVars>>

CallSendQuery(t) ==
    /\ StartOp(t, "send_query")
    /\ \E m \in RetryArgs : loc' = [loc EXCEPT ![t] = [NoLocals EXCEPT !.maxRetries = m]]
    /\ Call(t, "sq_loop", "idle")
    /\ UNCHANGED <<mgrVars, worldVars, pollVars, coordVars, fileVars, extVars>>

\* ------------------------------------------------------- unused components
PollIdle ==
    /\ last_text = "" /\ stable_count = 0 /\ pollState = "off" /\ polls = 0 /\ hist = <<>>
    /\ lastPoll = ""

CoordIdle ==
    /\ coord = "off" /\ default_mode = <<>> /\ services = <<>> /\ nInstances = 0
    /\ factoryCalls = <<>>
    /\ lastCall = <<>> /\ returned = {} /\ callsLeft = 0

\* No resource pair is being allocated, used or cleaned up.
FilesIdle ==
    /\ files = {} /\ script_path = "" /\ auto_cleanup = FALSE
    /\ fpc = <<>> /\ floc = <<>> /\ fexc = <<>> /\ fop = <<>> /\ fcallsLeft = <<>>
    /\ handed = {}

\* No profile is being copied.
CopyIdle ==
    /\ profile = <<>> /\ copied = {} /\ copyPos = 0

\* strip_separator_lines is not being called.
StripIdle ==
    /\ sepText = <<>> /\ sepResult = <<>> /\ sepState = "off"

\* No request is being served.
AppIdle ==
    /\ api_key = "" /\ cfg_mode = "" /\ request = <<>> /\ response = <<>>
    /\ appState = "off" /\ lookups = 0 /\ enhanceCalls = 0 /\ backendExc = <<>>

\* No request worker is in get_service.
GsIdle ==
    /\ gpc = <<>> /\ gloc = <<>> /\ builtFor = <<>>

ExtIdle == CopyIdle /\ StripIdle /\ AppIdle /\ GsIdle

ManagerFresh ==
    /\ driver = None /\ temp = None /\ atexitRegistered = FALSE /\ lockOwner = 0
    /\ nBrowsers = 0 /\ quitCalls = <<>> /\ nDirs = 0 /\ disk = {} /\ rmCalls = <<>>
    /\ rmFailed = {} /\ atexitCalls = 0
    /\ pc = [t \in Threads |-> "idle"]
    /\ stack = [t \in Threads |-> <<>>]
    /\ exc = [t \in Threads |-> NoExc]
    /\ loc = [t \in Threads |-> NoLocals]
    /\ op = [t \in Threads |-> NoOp]

\* ================================================= Spec: one caller, thread 1
\* GeminiClient.__init__, line 56-76.
Init ==
    /\ ManagerFresh
    /\ seleniumAvailable \in BOOLEAN
    /\ opsLeft = [t \in Threads |-> IF t = 1 THEN MaxOps ELSE 0]
    /\ PollIdle
    /\ CoordIdle
    /\ FilesIdle
    /\ ExtIdle

Next ==
    \E t \in {1} :
        \/ CallInitDriver(t) \/ CallClose(t) \/ CallSendQuery(t) \/ CallGemini(t)
        \/ CloseSwap(t) \/ CloseQuit(t) \/ CleanupSwap(t) \/ CleanupRmtree(t)
        \/ InitUnavailable(t) \/ InitCloseExisting(t) \/ InitNoExisting(t) \/ InitAfterClose(t)
        \/ InitResolveProfile(t) \/ PrepMkdtemp(t) \/ PrepChmod(t) \/ PrepCopy(t)
        \/ PrepTrackAcquire(t) \/ PrepTrackSet(t) \/ PrepRegisterAtexit(t)
        \/ InitBuildService(t) \/ InitStartFirefox(t) \/ InitFirefoxFailed(t) \/ InitSetDriver(t)
        \/ SqLoopExit(t) \/ SqRequireDriver(t) \/ SqOpenGemini(t) \/ SqFindInputBox(t)
        \/ SqSubmitQuery(t) \/ SqWaitForResponse(t) \/ SqExtractResponse(t)
        \/ SqHandle(t) \/ SqReinit(t) \/ SqAfterReinit(t)
        \/ CgAfterInit(t) \/ CgAfterSendQuery(t) \/ CgFinish(t)

Spec == Init /\ [][Next]_vars

\* ================================== SpecConc: two callers on the same manager
\* Thread 1 first starts a session with init_driver(); both threads call
\* close(), thread 2 at any moment of that init_driver() or after it.
InitConc ==
    /\ ManagerFresh
    /\ seleniumAvailable = TRUE
    /\ opsLeft = [t \in Threads |-> IF t = 1 THEN MaxConcOps + 1 ELSE MaxConcOps]
    /\ PollIdle
    /\ CoordIdle
    /\ FilesIdle
    /\ ExtIdle

ConcStartSession ==
    /\ opsLeft[1] = MaxConcOps + 1
    /\ CallInitDriver(1)

ConcClose(t) ==
    /\ opsLeft[t] <= MaxConcOps
    /\ CallClose(t)

NextConc ==
    \/ ConcStartSession
    \/ \E t \in Threads :
        \/ ConcClose(t)
        \/ CloseSwap(t) \/ CloseQuit(t) \/ CleanupSwap(t) \/ CleanupRmtree(t)
        \/ InitNoExisting(t)
        \/ InitResolveProfile(t) \/ PrepMkdtemp(t) \/ PrepChmod(t) \/ PrepCopy(t)
        \/ PrepTrackAcquire(t) \/ PrepTrackSet(t) \/ PrepRegisterAtexit(t)
        \/ InitBuildService(t) \/ InitStartFirefox(t) \/ InitFirefoxFailed(t) \/ InitSetDriver(t)

SpecConc == InitConc /\ [][NextConc]_vars

\* ============== SpecConcInit: two callers start a session on the same manager
\* Each of the two callers calls init_driver() once, at any moment of the
\* other's call, and then calls close().
MaxInitOps == 2

InitConcInit ==
    /\ ManagerFresh
    /\ seleniumAvailable = TRUE
    /\ opsLeft = [t \in Threads |-> MaxInitOps]
    /\ PollIdle
    /\ CoordIdle
    /\ FilesIdle
    /\ ExtIdle

ConcInitDriver(t) ==
    /\ opsLeft[t] = MaxInitOps
    /\ CallInitDriver(t)

ConcInitClose(t) ==
    /\ opsLeft[t] < MaxInitOps
    /\ CallClose(t)

NextConcInit ==
    \E t \in Threads :
        \/ ConcInitDriver(t) \/ ConcInitClose(t)
        \/ CloseSwap(t) \/ CloseQuit(t) \/ CleanupSwap(t) \/ CleanupRmtree(t)
        \/ InitCloseExisting(t) \/ InitNoExisting(t) \/ InitAfterClose(t)
        \/ InitResolveProfile(t) \/ PrepMkdtemp(t) \/ PrepChmod(t) \/ PrepCopy(t)
        \/ PrepTrackAcquire(t) \/ PrepTrackSet(t) \/ PrepRegisterAtexit(t)
        \/ InitBuildService(t) \/ InitStartFirefox(t) \/ InitFirefoxFailed(t) \/ InitSetDriver(t)

SpecConcInit == InitConcInit /\ [][NextConcInit]_vars

\* ================= SpecRetry: send_query with any number of attempts allowed
\* One caller starts a session or not, and then calls send_query(text,
\* max_retries) once, with max_retries from 0 to MaxRetryArg.  Every step
\* that is enabled is eventually taken: each browser step and the wait
\* terminate.
MaxRetryArg == 3

InitRetry ==
    /\ ManagerFresh
    /\ seleniumAvailable = TRUE
    /\ opsLeft = [t \in Threads |-> IF t = 1 THEN 2 ELSE 0]
    /\ PollIdle
    /\ CoordIdle
    /\ FilesIdle
    /\ ExtIdle

RetryStartSession(t) ==
    /\ opsLeft[t] = 2
    /\ CallInitDriver(t)

RetrySendQuery(t) ==
    /\ pc[t] = "idle"
    /\ opsLeft[t] > 0
    /\ opsLeft' = [opsLeft EXCEPT ![t] = 0]
    /\ op' = [op EXCEPT ![t] = NewOp("send_query", t)]
    /\ exc' = [exc EXCEPT ![t] = NoExc]
    /\ \E m \in 0..MaxRetryArg :
          loc' = [loc EXCEPT ![t] = [NoLocals EXCEPT !.maxRetries = m]]
    /\ Call(t, "sq_loop", "idle")
    /\ UNCHANGED <<mgrVars, worldVars, pollVars, coordVars, fileVars, extVars>>

NextRetry ==
    \E t \in {1} :
        \/ RetryStartSession(t) \/ RetrySendQuery(t)
        \/ CloseSwap(t) \/ CloseQuit(t) \/ CleanupSwap(t) \/ CleanupRmtree(t)
        \/ InitNoExisting(t)
        \/ InitResolveProfile(t) \/ PrepMkdtemp(t) \/ PrepChmod(t) \/ PrepCopy(t)
        \/ PrepTrackAcquire(t) \/ PrepTrackSet(t) \/ PrepRegisterAtexit(t)
        \/ InitBuildService(t) \/ InitStartFirefox(t) \/ InitFirefoxFailed(t) \/ InitSetDriver(t)
        \/ SqLoopExit(t) \/ SqRequireDriver(t) \/ SqOpenGemini(t) \/ SqFindInputBox(t)
        \/ SqSubmitQuery(t) \/ SqWaitForResponse(t) \/ SqExtractResponse(t)
        \/ SqHandle(t) \/ SqReinit(t) \/ SqAfterReinit(t)

SpecRetry == InitRetry /\ [][NextRetry]_vars /\ WF_vars(NextRetry)

ManagerIdle ==
    /\ ManagerFresh
    /\ seleniumAvailable = TRUE
    /\ opsLeft = [t \in Threads |-> 0]

\* ========================================= SpecPoll: _wait_for_response
\* What one poll reads off the page: the response text (empty, or one of two
\* texts), whether a Stop button and whether a microphone button is there.
Texts == {"", "a", "b"}

\* The completed polls the properties look back over.
Window == RESPONSE_STABLE_CHECKS + 1

LastN(s, n) == IF Len(s) <= n THEN s ELSE SubSeq(s, Len(s) - n + 1, Len(s))

\* A counter that is not reset when the text changes.
NextStableCount_NoReset(text) ==
    IF text = last_text /\ text # "" THEN stable_count + 1 ELSE stable_count

\* A counter that also counts an empty text read twice in a row.
NextStableCount_CountsEmpty(text) ==
    IF text = last_text THEN stable_count + 1 ELSE 0

\* _wait_for_response(), line 385-388: the counter after a poll that read text.
NextStableCount(text) ==
    IF text = last_text /\ text # "" THEN stable_count + 1 ELSE 0

\* _wait_for_response(), line 385-389: last_text after that poll.
NextLastText(text) ==
    IF text = last_text /\ text # "" THEN last_text ELSE text

\* The threshold compared with > instead of >=.
PollSucceeds_OffByOne(text, stop, mic, count) ==
    /\ (~stop /\ text # "") \/ mic
    /\ count > RESPONSE_STABLE_CHECKS

\* The counter alone ends the wait, whatever the markers say.
PollSucceeds_IgnoresMarkers(text, stop, mic, count) ==
    count >= RESPONSE_STABLE_CHECKS

\* _wait_for_response(), line 390-393: the poll ends the wait.
PollSucceeds(text, stop, mic, count) ==
    /\ (~stop /\ text # "") \/ mic
    /\ count >= RESPONSE_STABLE_CHECKS

\* _wait_for_response(), line 366-373.
InitPoll ==
    /\ ManagerIdle
    /\ CoordIdle
    /\ last_text = "" /\ stable_count = 0 /\ pollState = "polling" /\ polls = 0
    /\ hist = <<>>
    /\ lastPoll = ""
    /\ FilesIdle
    /\ ExtIdle

\* One iteration of the loop, line 374-393 and 396, that reads the page.
PollReads ==
    /\ pollState = "polling"
    /\ polls < MaxPolls
    /\ \E text \in Texts, stop \in BOOLEAN, mic \in BOOLEAN :
          /\ stable_count' = NextStableCount(text)
          /\ last_text' = NextLastText(text)
          /\ hist' = LastN(Append(hist, [text |-> text, stop |-> stop, mic |-> mic]), Window)
          /\ pollState' = IF PollSucceeds(text, stop, mic, NextStableCount(text))
                             THEN "success" ELSE "polling"
    /\ polls' = polls + 1
    /\ lastPoll' = "read"
    /\ UNCHANGED <<mgrVars, worldVars, thrVars, callVars, coordVars, fileVars, extVars>>

\* A failed iteration that starts the count over.
PollRaises_StartsOver ==
    /\ pollState = "polling"
    /\ polls < MaxPolls
    /\ polls' = polls + 1
    /\ lastPoll' = "raised"
    /\ stable_count' = 0
    /\ last_text' = ""
    /\ UNCHANGED <<pollState, hist>>
    /\ UNCHANGED <<mgrVars, worldVars, thrVars, callVars, coordVars, fileVars, extVars>>

\* One iteration whose marker lookup or text extraction raises, line 376-383 and 394-396: the
\* exception is logged and the loop goes on.
PollRaises ==
    /\ pollState = "polling"
    /\ polls < MaxPolls
    /\ polls' = polls + 1
    /\ lastPoll' = "raised"
    /\ UNCHANGED <<last_text, stable_count, pollState, hist>>
    /\ UNCHANGED <<mgrVars, worldVars, thrVars, callVars, coordVars, fileVars, extVars>>

\* line 374 and 397: the timeout has elapsed at the loop's test.
PollTimeout ==
    /\ pollState = "polling"
    /\ pollState' = "timeout"
    /\ UNCHANGED <<last_text, stable_count, polls, hist, lastPoll>>
    /\ UNCHANGED <<mgrVars, worldVars, thrVars, callVars, coordVars, fileVars, extVars>>

NextPoll == PollReads \/ PollRaises \/ PollTimeout

SpecPoll == InitPoll /\ [][NextPoll]_vars

\* ========================================= SpecCoord: EnhancerCoordinator
\* Mode names are sequences of characters.
COMMAND  == <<"c", "o", "m", "m", "a", "n", "d">>
SELENIUM == <<"s", "e", "l", "e", "n", "i", "u", "m">>
Supported == {COMMAND, SELENIUM}

\* The names given as cfg.mode and as get_service's argument.
RawModes ==
    { <<>>, <<" ">>,
      COMMAND, <<" ", "C", "o", "m", "m", "a", "n", "d", " ">>,
      SELENIUM, <<"S", "E", "L", "E", "N", "I", "U", "M", "\n">>,
      <<"s", "h", "e", "l", "l">>, <<"c", "o", "m", " ", "m", "a", "n", "d">> }

UpperChars == <<"A", "B", "C", "D", "E", "F", "G", "H", "I", "J", "K", "L", "M",
                "N", "O", "P", "Q", "R", "S", "T", "U", "V", "W", "X", "Y", "Z">>
LowerChars == <<"a", "b", "c", "d", "e", "f", "g", "h", "i", "j", "k", "l", "m",
                "n", "o", "p", "q", "r", "s", "t", "u", "v", "w", "x", "y", "z">>
Whitespace == {" ", "\t", "\n", "\r"}

\* str.lower()
LowerChar(c) ==
    IF \E i \in DOMAIN UpperChars : UpperChars[i] = c
       THEN LowerChars[CHOOSE i \in DOMAIN UpperChars : UpperChars[i] = c]
       ELSE c
Lower(s) == [i \in DOMAIN s |-> LowerChar(s[i])]

\* str.strip(): leading and trailing whitespace removed.
Strip(s) ==
    LET keep == {i \in DOMAIN s : s[i] \notin Whitespace}
    IN  IF keep = {} THEN <<>>
        ELSE LET lo == CHOOSE i \in keep : \A j \in keep : i <= j
                 hi == CHOOSE i \in keep : \A j \in keep : i >= j
             IN  SubSeq(s, lo, hi)

\* _normalize_mode(), line 130-131.
NormalizeMode(mode) == Lower(Strip(mode))

\* get_service() falling back to the default mode for every name that is not
\* a supported one.
Resolve_FallsBackOnUnsupported(mode) ==
    IF NormalizeMode(mode) \in Supported THEN NormalizeMode(mode) ELSE default_mode

\* get_service(), line 147: an empty name means the default mode.
Resolve(mode) ==
    IF NormalizeMode(mode) = <<>> THEN default_mode ELSE NormalizeMode(mode)

\* get_service() without the cache lookup.
Cached_Never(n) == FALSE

\* get_service(), line 151: the backend is already cached.
Cached(n) == n \in DOMAIN services

InitCoord ==
    /\ ManagerIdle
    /\ PollIdle
    /\ coord = "new" /\ default_mode = <<>> /\ services = <<>> /\ nInstances = 0
    /\ factoryCalls = [n \in Supported |-> 0]
    /\ lastCall = <<>> /\ returned = {} /\ callsLeft = MaxCalls
    /\ FilesIdle
    /\ ExtIdle

\* __init__ without the check of the default mode.
Construct_Unchecked ==
    /\ coord = "new"
    /\ \E mode \in RawModes :
          /\ coord' = "ready"
          /\ default_mode' = NormalizeMode(mode)
    /\ UNCHANGED <<services, nInstances, factoryCalls, lastCall, returned, callsLeft>>
    /\ UNCHANGED <<mgrVars, worldVars, thrVars, callVars, pollVars, fileVars, extVars>>

\* EnhancerCoordinator.__init__, line 135-140.
Construct ==
    /\ coord = "new"
    /\ \E mode \in RawModes :
          IF NormalizeMode(mode) \in Supported
             THEN /\ coord' = "ready"
                  /\ default_mode' = NormalizeMode(mode)
             ELSE /\ coord' = "failed"
                  /\ default_mode' = NormalizeMode(mode)
    /\ UNCHANGED <<services, nInstances, factoryCalls, lastCall, returned, callsLeft>>
    /\ UNCHANGED <<mgrVars, worldVars, thrVars, callVars, pollVars, fileVars, extVars>>

\* get_service() storing an entry for the name before the factory has
\* returned, so that a failed construction stays in the cache.
GetService_CachesFailure ==
    /\ coord = "ready"
    /\ callsLeft > 0
    /\ callsLeft' = callsLeft - 1
    /\ \E mode \in RawModes, built \in BOOLEAN :
          LET n == Resolve(mode) IN
          IF n \notin Supported
             THEN /\ lastCall' = [mode |-> mode, outcome |-> "ModeNotSupportedError",
                                  names |-> mode, instance |-> None]
                  /\ UNCHANGED <<services, nInstances, factoryCalls, returned>>
          ELSE IF Cached(n)
             THEN /\ lastCall' = [mode |-> mode, outcome |-> "returned",
                                  names |-> <<>>, instance |-> services[n]]
                  /\ returned' = returned \cup {<<mode, services[n]>>}
                  /\ UNCHANGED <<services, nInstances, factoryCalls>>
          ELSE IF built
             THEN /\ factoryCalls' = [factoryCalls EXCEPT ![n] = @ + 1]
                  /\ nInstances' = nInstances + 1
                  /\ services' = (n :> (nInstances + 1)) @@ services
                  /\ lastCall' = [mode |-> mode, outcome |-> "returned",
                                  names |-> <<>>, instance |-> nInstances + 1]
                  /\ returned' = returned \cup {<<mode, nInstances + 1>>}
             ELSE /\ factoryCalls' = [factoryCalls EXCEPT ![n] = @ + 1]
                  /\ services' = (n :> None) @@ services
                  /\ lastCall' = [mode |-> mode, outcome |-> "factory raised",
                                  names |-> <<>>, instance |-> None]
                  /\ UNCHANGED <<nInstances, returned>>
    /\ UNCHANGED <<coord, default_mode>>
    /\ UNCHANGED <<mgrVars, worldVars, thrVars, callVars, pollVars, fileVars, extVars>>

\* get_service(), line 146-155, with the factory's constructor (line 164-184)
\* returning a new backend or raising.
GetService ==
    /\ coord = "ready"
    /\ callsLeft > 0
    /\ callsLeft' = callsLeft - 1
    /\ \E mode \in RawModes, built \in BOOLEAN :
          LET n == Resolve(mode) IN
          IF n \notin Supported
             THEN /\ lastCall' = [mode |-> mode, outcome |-> "ModeNotSupportedError",
                                  names |-> mode, instance |-> None]
                  /\ UNCHANGED <<services, nInstances, factoryCalls, returned>>
          ELSE IF Cached(n)
             THEN /\ lastCall' = [mode |-> mode, outcome |-> "returned",
                                  names |-> <<>>, instance |-> services[n]]
                  /\ returned' = returned \cup {<<mode, services[n]>>}
                  /\ UNCHANGED <<services, nInstances, factoryCalls>>
          ELSE IF built
             THEN /\ factoryCalls' = [factoryCalls EXCEPT ![n] = @ + 1]
                  /\ nInstances' = nInstances + 1
                  /\ services' = (n :> (nInstances + 1)) @@ services
                  /\ lastCall' = [mode |-> mode, outcome |-> "returned",
                                  names |-> <<>>, instance |-> nInstances + 1]
                  /\ returned' = returned \cup {<<mode, nInstances + 1>>}
             ELSE /\ factoryCalls' = [factoryCalls EXCEPT ![n] = @ + 1]
                  /\ lastCall' = [mode |-> mode, outcome |-> "factory raised",
                                  names |-> <<>>, instance |-> None]
                  /\ UNCHANGED <<services, nInstances, returned>>
    /\ UNCHANGED <<coord, default_mode>>
    /\ UNCHANGED <<mgrVars, worldVars, thrVars, callVars, pollVars, fileVars, extVars>>

NextCoord == Construct \/ GetService

SpecCoord == InitCoord /\ [][NextCoord]_vars

\* ============ SpecCoordConc: request workers in get_service at the same time
\* The calls of get_service made by the workers, all together.
MaxWorkerCalls == 3

NoGsLocals == [mode |-> <<>>, normalized |-> <<>>, service |-> None]

\* create_app(), app.py line 21-32: the coordinator is built and the command
\* backend constructed before any request is served; the selenium backend
\* too when it is the default.
InitCoordConc ==
    /\ ManagerIdle /\ PollIdle /\ FilesIdle
    /\ CopyIdle /\ StripIdle /\ AppIdle
    /\ coord = "ready"
    /\ default_mode \in Supported
    /\ services = IF default_mode = SELENIUM
                     THEN (COMMAND :> 1) @@ (SELENIUM :> 2)
                     ELSE (COMMAND :> 1)
    /\ builtFor = IF default_mode = SELENIUM
                     THEN (1 :> COMMAND) @@ (2 :> SELENIUM)
                     ELSE (1 :> COMMAND)
    /\ nInstances = IF default_mode = SELENIUM THEN 2 ELSE 1
    /\ factoryCalls = [n \in Supported |-> IF n \in DOMAIN services THEN 1 ELSE 0]
    /\ lastCall = <<>> /\ returned = {} /\ callsLeft = MaxWorkerCalls
    /\ gpc = [t \in Threads |-> "idle"]
    /\ gloc = [t \in Threads |-> NoGsLocals]

GsFrame == UNCHANGED <<mgrVars, worldVars, thrVars, callVars, pollVars, fileVars,
                       copyVars, stripVars, appVars>>

\* app.py line 54 and 35-39, get_service() line 147-149: a worker calls
\* get_service with the requested name; an unsupported name is refused.
GsCall(t) ==
    /\ gpc[t] = "idle"
    /\ callsLeft > 0
    /\ callsLeft' = callsLeft - 1
    /\ \E mode \in RawModes :
          IF Resolve(mode) \in Supported
             THEN /\ gloc' = [gloc EXCEPT ![t] =
                                 [NoGsLocals EXCEPT !.mode = mode, !.normalized = Resolve(mode)]]
                  /\ gpc' = [gpc EXCEPT ![t] = "gs_check"]
                  /\ UNCHANGED lastCall
             ELSE /\ lastCall' = [mode |-> mode, outcome |-> "ModeNotSupportedError",
                                  names |-> mode, instance |-> None]
                  /\ gloc' = [gloc EXCEPT ![t] = NoGsLocals]
                  /\ UNCHANGED gpc
    /\ UNCHANGED <<coord, default_mode, services, nInstances, factoryCalls, returned, builtFor>>
    /\ GsFrame

\* get_service(), line 151: the test `normalized not in self._services`.
GsCheck(t) ==
    /\ gpc[t] = "gs_check"
    /\ gpc' = [gpc EXCEPT ![t] = IF Cached(gloc[t].normalized) THEN "gs_return" ELSE "gs_factory"]
    /\ UNCHANGED <<coordVars, gloc, builtFor>>
    /\ GsFrame

\* get_service(), line 152-153: the factory constructs a backend, or raises.
GsFactory(t) ==
    /\ gpc[t] = "gs_factory"
    /\ factoryCalls' = [factoryCalls EXCEPT ![gloc[t].normalized] = @ + 1]
    /\ \E built \in BOOLEAN :
          IF built
             THEN /\ nInstances' = nInstances + 1
                  /\ builtFor' = builtFor @@ ((nInstances + 1) :> gloc[t].normalized)
                  /\ gloc' = [gloc EXCEPT ![t].service = nInstances + 1]
                  /\ gpc' = [gpc EXCEPT ![t] = "gs_store"]
                  /\ UNCHANGED lastCall
             ELSE /\ lastCall' = [mode |-> gloc[t].mode, outcome |-> "factory raised",
                                  names |-> <<>>, instance |-> None]
                  /\ gpc' = [gpc EXCEPT ![t] = "idle"]
                  /\ UNCHANGED <<nInstances, builtFor, gloc>>
    /\ UNCHANGED <<coord, default_mode, services, returned, callsLeft>>
    /\ GsFrame

\* get_service(), line 154: self._services[normalized] = service
GsStore(t) ==
    /\ gpc[t] = "gs_store"
    /\ services' = (gloc[t].normalized :> gloc[t].service) @@ services
    /\ gpc' = [gpc EXCEPT ![t] = "gs_return"]
    /\ UNCHANGED <<coord, default_mode, nInstances, factoryCalls, lastCall, returned, callsLeft,
                   gloc, builtFor>>
    /\ GsFrame

\* get_service(), line 155: return self._services[normalized]
GsReturn(t) ==
    /\ gpc[t] = "gs_return"
    /\ returned' = returned \cup {<<gloc[t].mode, services[gloc[t].normalized]>>}
    /\ lastCall' = [mode |-> gloc[t].mode, outcome |-> "returned",
                    names |-> <<>>, instance |-> services[gloc[t].normalized]]
    /\ gpc' = [gpc EXCEPT ![t] = "idle"]
    /\ UNCHANGED <<coord, default_mode, services, nInstances, factoryCalls, callsLeft,
                   gloc, builtFor>>
    /\ GsFrame

NextCoordConc ==
    \E t \in Threads :
        GsCall(t) \/ GsCheck(t) \/ GsFactory(t) \/ GsStore(t) \/ GsReturn(t)

SpecCoordConc == InitCoordConc /\ [][NextCoordConc]_vars

\* ====================================== resource pairs (enhancer.py)
\* A path is <<directory, allocation token, suffix>>; NoPath: no path.
NoPath == <<>>
InSuffix  == "_in.txt"
OutSuffix == "_out.txt"

\* _timestamp_millis(), line 49-52: the timestamps the clock can give.
Stamps == 1..MaxStamps
\* The random parts tempfile.NamedTemporaryFile can pick for a name.
Tokens == 1..MaxTokens

\* _create_timestamped_pair(), line 59: root_dir / f"{timestamp}_in.txt"
InputPath(timestamp) == <<"root", timestamp, InSuffix>>

\* A durable output path that does not carry the timestamp.
OutputPath_Untagged(timestamp) == <<"root", None, OutSuffix>>

\* _create_timestamped_pair(), line 60: root_dir / f"{timestamp}_out.txt"
OutputPath(timestamp) == <<"root", timestamp, OutSuffix>>

\* _create_transient_file(), line 87: promate-enhancer_<random><suffix>
TransientPath(token, suffix) == <<"tmp", token, suffix>>

DurableNames   == {InputPath(ts) : ts \in Stamps} \cup {OutputPath(ts) : ts \in Stamps}
TransientNames == {TransientPath(k, sfx) : k \in Tokens, sfx \in {InSuffix, OutSuffix}}

\* TempFilePair, line 35-39.
TempFilePair(i, o, p) == [input_path |-> i, output_path |-> o, persist |-> p]
NoPair == TempFilePair(NoPath, NoPath, FALSE)

NoFileLocals ==
    [attempt |-> 0, timestamp |-> None, input_path |-> NoPath, output_path |-> NoPath,
     temp_files |-> NoPair]

NoFileOp ==
    [name |-> "none", files0 |-> {}, attempts |-> 0, collisions |-> 0,
     cleanups |-> 0, scriptRemoved |-> {}, filesAtCleanup |-> {}, filesAfterFirst |-> {},
     raised |-> "none"]

NewFileOp(name) == [NoFileOp EXCEPT !.name = name, !.files0 = files]

FGoto(t, label) == fpc' = [fpc EXCEPT ![t] = label]

notFileVars == <<mgrVars, worldVars, thrVars, callVars, pollVars, coordVars>>

\* ---------------------------------------------- _create_timestamped_pair
\* The retry loop with one attempt more than the budget.
BudgetLeft_OneMore(t) == floc[t].attempt <= TEMP_CREATION_RETRIES

\* line 57: for _ in range(_TEMP_CREATION_RETRIES)
BudgetLeft(t) == floc[t].attempt < TEMP_CREATION_RETRIES

\* line 57-60: an attempt starts by reading the clock.
AllocTimestamp(t) ==
    /\ fpc[t] = "alloc_loop"
    /\ BudgetLeft(t)
    /\ \E timestamp \in Stamps :
          floc' = [floc EXCEPT ![t].timestamp = timestamp,
                               ![t].input_path = InputPath(timestamp),
                               ![t].output_path = OutputPath(timestamp)]
    /\ fop' = [fop EXCEPT ![t].attempts = @ + 1]
    /\ FGoto(t, "alloc_open_in")
    /\ UNCHANGED <<files, script_path, auto_cleanup, fexc, fcallsLeft, handed, notFileVars, extVars>>

\* line 71: the loop has used its attempts.
AllocExhausted(t) ==
    /\ fpc[t] = "alloc_loop"
    /\ ~BudgetLeft(t)
    /\ fexc' = [fexc EXCEPT ![t] = "AllocationFailed"]
    /\ FGoto(t, "alloc_ret")
    /\ UNCHANGED <<files, script_path, auto_cleanup, floc, fop, fcallsLeft, handed, notFileVars, extVars>>

\* line 62-63: os.open(input_path, O_CREAT | O_WRONLY | O_EXCL)
AllocOpenIn(t) ==
    /\ fpc[t] = "alloc_open_in"
    /\ IF floc[t].input_path \in files
          THEN /\ FGoto(t, "alloc_except")
               /\ fop' = [fop EXCEPT ![t].collisions = @ + 1]
               /\ UNCHANGED files
          ELSE /\ files' = files \cup {floc[t].input_path}
               /\ FGoto(t, "alloc_open_out")
               /\ UNCHANGED fop
    /\ UNCHANGED <<script_path, auto_cleanup, floc, fexc, fcallsLeft, handed, notFileVars, extVars>>

\* line 64-66 and 83: os.open(output_path, ... O_EXCL), then the pair is
\* returned (marked persistent by maybe_create_temp_file_pair).
AllocOpenOut(t) ==
    /\ fpc[t] = "alloc_open_out"
    /\ IF floc[t].output_path \in files
          THEN /\ FGoto(t, "alloc_except")
               /\ fop' = [fop EXCEPT ![t].collisions = @ + 1]
               /\ UNCHANGED <<files, floc, handed>>
          ELSE /\ files' = files \cup {floc[t].output_path}
               /\ floc' = [floc EXCEPT ![t].temp_files =
                              TempFilePair(floc[t].input_path, floc[t].output_path, TRUE)]
               /\ handed' = handed \cup
                     {<<t, fcallsLeft[t], floc[t].input_path, floc[t].output_path>>}
               /\ FGoto(t, "alloc_ret")
               /\ UNCHANGED fop
    /\ UNCHANGED <<script_path, auto_cleanup, fexc, fcallsLeft, notFileVars, extVars>>

\* line 67-70: except FileExistsError: os.remove(input_path) with a missing
\* file tolerated, a short sleep, and the next attempt.
AllocDiscard(t) ==
    /\ fpc[t] = "alloc_except"
    /\ files' = files \ {floc[t].input_path}
    /\ floc' = [floc EXCEPT ![t].attempt = @ + 1]
    /\ FGoto(t, "alloc_loop")
    /\ UNCHANGED <<script_path, auto_cleanup, fexc, fop, fcallsLeft, handed, notFileVars, extVars>>

\* --------------------------------------- create_transient_temp_file_pair
\* line 99 (_create_transient_file, line 86-93): NamedTemporaryFile makes a
\* file under a name that is not in use, or raises; os.chmod (line 92) on
\* the new file may raise too, and then the file stays and its path never
\* reaches the caller.
TransientCreateIn(t) ==
    /\ fpc[t] = "tr_in"
    /\ \/ \E k \in Tokens, chmodOk \in BOOLEAN :
             /\ TransientPath(k, InSuffix) \notin files
             /\ files' = files \cup {TransientPath(k, InSuffix)}
             /\ IF chmodOk
                   THEN /\ floc' = [floc EXCEPT ![t].input_path = TransientPath(k, InSuffix)]
                        /\ FGoto(t, "tr_out")
                        /\ UNCHANGED fexc
                   ELSE /\ fexc' = [fexc EXCEPT ![t] = "ChmodFailed"]
                        /\ FGoto(t, "alloc_ret")
                        /\ UNCHANGED floc
       \/ /\ fexc' = [fexc EXCEPT ![t] = "TempFileFailed"]
          /\ FGoto(t, "alloc_ret")
          /\ UNCHANGED <<files, floc>>
    /\ UNCHANGED <<script_path, auto_cleanup, fop, fcallsLeft, handed, notFileVars, extVars>>

\* line 100 and 106: the second file, under a name of its own; a failure
\* (of the creation, or of os.chmod on the file just created) is caught at
\* line 101.
TransientCreateOut(t) ==
    /\ fpc[t] = "tr_out"
    /\ \/ \E k \in Tokens, chmodOk \in BOOLEAN :
             /\ TransientPath(k, OutSuffix) \notin files
             /\ files' = files \cup {TransientPath(k, OutSuffix)}
             /\ IF chmodOk
                   THEN /\ floc' = [floc EXCEPT
                                      ![t].output_path = TransientPath(k, OutSuffix),
                                      ![t].temp_files =
                                          TempFilePair(floc[t].input_path,
                                                       TransientPath(k, OutSuffix), FALSE)]
                        /\ handed' = handed \cup
                              {<<t, fcallsLeft[t], floc[t].input_path, TransientPath(k, OutSuffix)>>}
                        /\ FGoto(t, "alloc_ret")
                        /\ UNCHANGED fexc
                   ELSE /\ fexc' = [fexc EXCEPT ![t] = "ChmodFailed"]
                        /\ FGoto(t, "tr_undo")
                        /\ UNCHANGED <<floc, handed>>
          \/ /\ fexc' = [fexc EXCEPT ![t] = "TempFileFailed"]
             /\ FGoto(t, "tr_undo")
             /\ UNCHANGED <<files, floc, handed>>
    /\ UNCHANGED <<script_path, auto_cleanup, fop, fcallsLeft, notFileVars, extVars>>

\* line 101-105: the first file is removed (a missing one is tolerated) and
\* the error raised again.
TransientUndo(t) ==
    /\ fpc[t] = "tr_undo"
    /\ files' = files \ {floc[t].input_path}
    /\ FGoto(t, "alloc_ret")
    /\ UNCHANGED <<script_path, auto_cleanup, floc, fexc, fop, fcallsLeft, handed, notFileVars, extVars>>

\* ------------------------------------------- TempFilePair.maybe_cleanup
\* maybe_cleanup without the test of the persist flag.
CleanupCheckPersist_IgnoresPersist(t) ==
    /\ fpc[t] = "mc_start"
    /\ fop' = [fop EXCEPT ![t].cleanups = @ + 1,
                          ![t].filesAtCleanup = files]
    /\ FGoto(t, "mc_unlink_in")
    /\ UNCHANGED <<files, script_path, auto_cleanup, floc, fexc, fcallsLeft, handed, notFileVars, extVars>>

\* line 42-43: a persistent pair is left alone.
CleanupCheckPersist(t) ==
    /\ fpc[t] = "mc_start"
    /\ fop' = [fop EXCEPT ![t].cleanups = @ + 1,
                          ![t].filesAtCleanup = files]
    /\ IF floc[t].temp_files.persist
          THEN FGoto(t, "mc_ret")
          ELSE FGoto(t, "mc_unlink_in")
    /\ UNCHANGED <<files, script_path, auto_cleanup, floc, fexc, fcallsLeft, handed, notFileVars, extVars>>

\* maybe_cleanup without the suppress(FileNotFoundError) around unlink().
UnlinkInput_Unsuppressed(t) ==
    /\ fpc[t] = "mc_unlink_in"
    /\ IF floc[t].temp_files.input_path \in files
          THEN /\ files' = files \ {floc[t].temp_files.input_path}
               /\ FGoto(t, "mc_unlink_out")
               /\ UNCHANGED fexc
          ELSE /\ fexc' = [fexc EXCEPT ![t] = "FileNotFoundError"]
               /\ FGoto(t, "mc_ret")
               /\ UNCHANGED files
    /\ UNCHANGED <<script_path, auto_cleanup, floc, fop, fcallsLeft, handed, notFileVars, extVars>>

\* line 44-46, first path: input_path.unlink(), a missing file tolerated.
UnlinkInput(t) ==
    /\ fpc[t] = "mc_unlink_in"
    /\ files' = files \ {floc[t].temp_files.input_path}
    /\ FGoto(t, "mc_unlink_out")
    /\ UNCHANGED <<script_path, auto_cleanup, floc, fexc, fop, fcallsLeft, handed, notFileVars, extVars>>

\* line 44-46, second path: output_path.unlink(), a missing file tolerated.
UnlinkOutput(t) ==
    /\ fpc[t] = "mc_unlink_out"
    /\ files' = files \ {floc[t].temp_files.output_path}
    /\ FGoto(t, "mc_ret")
    /\ UNCHANGED <<script_path, auto_cleanup, floc, fexc, fop, fcallsLeft, handed, notFileVars, extVars>>

\* ---------------------------------------------- CommandService.enhance
\* mode_command.py line 38-44: the script path is checked, then a pair is
\* allocated: durable when auto-cleanup is off, transient when it is on.
CallEnhance(t) ==
    /\ fpc[t] = "idle"
    /\ fcallsLeft[t] > 0
    /\ fcallsLeft' = [fcallsLeft EXCEPT ![t] = @ - 1]
    /\ fop' = [fop EXCEPT ![t] = NewFileOp("enhance")]
    /\ floc' = [floc EXCEPT ![t] = NoFileLocals]
    /\ IF script_path = ""
          THEN /\ fexc' = [fexc EXCEPT ![t] = "EmptyScriptPath"]
               /\ FGoto(t, "enh_done")
          ELSE /\ fexc' = [fexc EXCEPT ![t] = "none"]
               /\ IF auto_cleanup THEN FGoto(t, "tr_in") ELSE FGoto(t, "alloc_loop")
    /\ UNCHANGED <<files, script_path, auto_cleanup, handed, notFileVars, extVars>>

\* line 42-51: the allocator has returned a pair (the try block is entered)
\* or raised (enhance raises the same error).
EnhAllocated(t) ==
    /\ fpc[t] = "alloc_ret"
    /\ fop[t].name = "enhance"
    /\ IF fexc[t] = "none"
          THEN FGoto(t, "enh_template")
          ELSE FGoto(t, "enh_done")
    /\ UNCHANGED <<files, script_path, auto_cleanup, floc, fexc, fop, fcallsLeft, handed,
                   notFileVars, extVars>>

\* The template step leaving enhance without the finally clause.
EnhResolveTemplate_NoFinally(t) ==
    /\ fpc[t] = "enh_template"
    /\ \E ok \in BOOLEAN :
          IF ok THEN /\ FGoto(t, "enh_write")
                     /\ UNCHANGED <<fexc, fop>>
                ELSE /\ fexc' = [fexc EXCEPT ![t] = "TemplateError"]
                     /\ fop' = [fop EXCEPT ![t].raised = "TemplateError"]
                     /\ FGoto(t, "enh_done")
    /\ UNCHANGED <<files, script_path, auto_cleanup, floc, fcallsLeft, handed, notFileVars, extVars>>

\* line 52-54: the template is resolved, loaded and rendered, or an error
\* is raised (into the finally clause).
EnhResolveTemplate(t) ==
    /\ fpc[t] = "enh_template"
    /\ \E ok \in BOOLEAN :
          IF ok THEN /\ FGoto(t, "enh_write")
                     /\ UNCHANGED <<fexc, fop>>
                ELSE /\ fexc' = [fexc EXCEPT ![t] = "TemplateError"]
                     /\ fop' = [fop EXCEPT ![t].raised = "TemplateError"]
                     /\ FGoto(t, "mc_start")
    /\ UNCHANGED <<files, script_path, auto_cleanup, floc, fcallsLeft, handed, notFileVars, extVars>>

\* line 55: input_path.write_text(...) opens the file for writing, creating
\* it if it is missing, or raises.
EnhWriteInput(t) ==
    /\ fpc[t] = "enh_write"
    /\ \E ok \in BOOLEAN :
          IF ok THEN /\ files' = files \cup {floc[t].temp_files.input_path}
                     /\ FGoto(t, "enh_run")
                     /\ UNCHANGED <<fexc, fop>>
                ELSE /\ fexc' = [fexc EXCEPT ![t] = "WriteFailed"]
                     /\ fop' = [fop EXCEPT ![t].raised = "WriteFailed"]
                     /\ FGoto(t, "mc_start")
                     /\ UNCHANGED files
    /\ UNCHANGED <<script_path, auto_cleanup, floc, fcallsLeft, handed, notFileVars, extVars>>

\* line 57-73: the script runs; it may remove either file of the pair; it
\* exits with status zero, exits with another status (RuntimeError), or
\* cannot be run at all (subprocess.run raises).
EnhRunScript(t) ==
    /\ fpc[t] = "enh_run"
    /\ \E gone \in SUBSET {floc[t].temp_files.input_path, floc[t].temp_files.output_path},
          outcome \in {"zero", "nonzero", "not run"} :
          /\ outcome = "not run" => gone = {}
          /\ files' = files \ gone
          /\ IF outcome = "zero"
                THEN /\ fop' = [fop EXCEPT ![t].scriptRemoved = gone]
                     /\ FGoto(t, "enh_read")
                     /\ UNCHANGED fexc
                ELSE /\ fexc' = [fexc EXCEPT ![t] = "ScriptFailed"]
                     /\ fop' = [fop EXCEPT ![t].scriptRemoved = gone,
                                           ![t].raised = "ScriptFailed"]
                     /\ FGoto(t, "mc_start")
    /\ UNCHANGED <<script_path, auto_cleanup, floc, fcallsLeft, handed, notFileVars, extVars>>

\* line 75-77: output_path.read_text() raises when the file is missing or
\* cannot be decoded; otherwise the cleaned text is the result.
EnhReadOutput(t) ==
    /\ fpc[t] = "enh_read"
    /\ \E readable \in BOOLEAN :
          IF readable /\ floc[t].temp_files.output_path \in files
             THEN UNCHANGED <<fexc, fop>>
             ELSE /\ fexc' = [fexc EXCEPT ![t] = "ReadFailed"]
                  /\ fop' = [fop EXCEPT ![t].raised = "ReadFailed"]
    /\ FGoto(t, "mc_start")
    /\ UNCHANGED <<files, script_path, auto_cleanup, floc, fcallsLeft, handed, notFileVars, extVars>>

\* line 78-80: the finally clause has run maybe_cleanup; enhance returns,
\* or raises what the try block raised.
EnhFinally(t) ==
    /\ fpc[t] = "mc_ret"
    /\ fop[t].name = "enhance"
    /\ FGoto(t, "enh_done")
    /\ UNCHANGED <<files, script_path, auto_cleanup, floc, fexc, fop, fcallsLeft, handed,
                   notFileVars, extVars>>

\* enhance has returned or raised to its caller.
EnhReturn(t) ==
    /\ fpc[t] = "enh_done"
    /\ FGoto(t, "idle")
    /\ UNCHANGED <<files, script_path, auto_cleanup, floc, fexc, fop, fcallsLeft, handed,
                   notFileVars, extVars>>

NoFileCalls ==
    /\ fpc = [t \in Threads |-> "idle"]
    /\ floc = [t \in Threads |-> NoFileLocals]
    /\ fexc = [t \in Threads |-> "none"]
    /\ fop = [t \in Threads |-> NoFileOp]
    /\ handed = {}

\* ======================== SpecEnhance: CommandService.enhance, one caller
\* CommandService.__init__ (mode_command.py line 21-36) over a root
\* directory with any content.
InitEnhance ==
    /\ ManagerIdle /\ PollIdle /\ CoordIdle /\ ExtIdle
    /\ files \in SUBSET DurableNames
    /\ script_path \in {"", "enhance_prompt.sh"}
    /\ auto_cleanup \in BOOLEAN
    /\ NoFileCalls
    /\ fcallsLeft = [t \in Threads |-> IF t = 1 THEN MaxEnhances ELSE 0]

NextEnhance ==
    \E t \in {1} :
        \/ CallEnhance(t) \/ EnhAllocated(t)
        \/ AllocTimestamp(t) \/ AllocExhausted(t) \/ AllocOpenIn(t) \/ AllocOpenOut(t)
        \/ AllocDiscard(t)
        \/ TransientCreateIn(t) \/ TransientCreateOut(t) \/ TransientUndo(t)
        \/ EnhResolveTemplate(t) \/ EnhWriteInput(t) \/ EnhRunScript(t) \/ EnhReadOutput(t)
        \/ CleanupCheckPersist(t) \/ UnlinkInput(t) \/ UnlinkOutput(t)
        \/ EnhFinally(t) \/ EnhReturn(t)

SpecEnhance == InitEnhance /\ [][NextEnhance]_vars

\* ============ SpecAlloc / SpecAllocConc: durable allocation on one root
\* maybe_create_temp_file_pair(False, root_dir), line 74-83.
CallAllocate(t) ==
    /\ fpc[t] = "idle"
    /\ fcallsLeft[t] > 0
    /\ fcallsLeft' = [fcallsLeft EXCEPT ![t] = @ - 1]
    /\ fop' = [fop EXCEPT ![t] = NewFileOp("allocate")]
    /\ floc' = [floc EXCEPT ![t] = NoFileLocals]
    /\ fexc' = [fexc EXCEPT ![t] = "none"]
    /\ FGoto(t, "alloc_loop")
    /\ UNCHANGED <<files, script_path, auto_cleanup, handed, notFileVars, extVars>>

\* The allocation has returned its pair or raised; the caller goes on.
AllocateReturns(t) ==
    /\ fpc[t] = "alloc_ret"
    /\ fop[t].name = "allocate"
    /\ fcallsLeft[t] > 0
    /\ FGoto(t, "idle")
    /\ UNCHANGED <<files, script_path, auto_cleanup, floc, fexc, fop, fcallsLeft, handed,
                   notFileVars, extVars>>

Allocating(t) ==
    \/ CallAllocate(t) \/ AllocateReturns(t)
    \/ AllocTimestamp(t) \/ AllocExhausted(t) \/ AllocOpenIn(t) \/ AllocOpenOut(t)
    \/ AllocDiscard(t)

\* One caller, a root directory with any content.
InitAlloc ==
    /\ ManagerIdle /\ PollIdle /\ CoordIdle /\ ExtIdle
    /\ files \in SUBSET DurableNames
    /\ script_path = "" /\ auto_cleanup = FALSE
    /\ NoFileCalls
    /\ fcallsLeft = [t \in Threads |-> IF t = 1 THEN MaxAllocs ELSE 0]

NextAlloc == \E t \in {1} : Allocating(t)

SpecAlloc == InitAlloc /\ [][NextAlloc]_vars

\* Two callers at once, a root directory that starts empty.
InitAllocConc ==
    /\ ManagerIdle /\ PollIdle /\ CoordIdle /\ ExtIdle
    /\ files = {}
    /\ script_path = "" /\ auto_cleanup = FALSE
    /\ NoFileCalls
    /\ fcallsLeft = [t \in Threads |-> MaxConcAllocs]

NextAllocConc == \E t \in Threads : Allocating(t)

SpecAllocConc == InitAllocConc /\ [][NextAllocConc]_vars

\* ================== SpecCleanup: maybe_cleanup called on a pair, repeatedly
\* The pairs the allocators return.
AllocatedPairs ==
    {TempFilePair(InputPath(ts), OutputPath(ts), TRUE) : ts \in Stamps}
    \cup {TempFilePair(TransientPath(j, InSuffix), TransientPath(k, OutSuffix), FALSE) :
             j \in Tokens, k \in Tokens}

\* A pair an allocator returned at some time before, and any files.
InitCleanup ==
    /\ ManagerIdle /\ PollIdle /\ CoordIdle /\ ExtIdle
    /\ files \in SUBSET (DurableNames \cup TransientNames)
    /\ script_path = "" /\ auto_cleanup = FALSE
    /\ fpc = [t \in Threads |-> "idle"]
    /\ \E pair \in AllocatedPairs :
          floc = [t \in Threads |->
                     IF t = 1 THEN [NoFileLocals EXCEPT !.temp_files = pair,
                                                        !.input_path = pair.input_path,
                                                        !.output_path = pair.output_path]
                              ELSE NoFileLocals]
    /\ fexc = [t \in Threads |-> "none"]
    /\ fop = [t \in Threads |-> NoFileOp]
    /\ handed = {}
    /\ fcallsLeft = [t \in Threads |-> IF t = 1 THEN MaxCleanups ELSE 0]

\* temp_files.maybe_cleanup() called by the holder of the pair.
CallMaybeCleanup(t) ==
    /\ fpc[t] = "idle"
    /\ fcallsLeft[t] > 0
    /\ fcallsLeft' = [fcallsLeft EXCEPT ![t] = @ - 1]
    /\ fop' = [fop EXCEPT ![t].name = "maybe_cleanup",
                          ![t].files0 = IF fop[t].cleanups = 0 THEN files ELSE @]
    /\ FGoto(t, "mc_start")
    /\ UNCHANGED <<files, script_path, auto_cleanup, floc, fexc, handed, notFileVars, extVars>>

\* maybe_cleanup() has returned (or raised) to the holder of the pair.
MaybeCleanupReturns(t) ==
    /\ fpc[t] = "mc_ret"
    /\ fop[t].name = "maybe_cleanup"
    /\ fop' = [fop EXCEPT ![t].filesAfterFirst =
                              IF fop[t].cleanups = 1 THEN files ELSE @]
    /\ FGoto(t, "idle")
    /\ UNCHANGED <<files, script_path, auto_cleanup, floc, fexc, fcallsLeft, handed, notFileVars, extVars>>

NextCleanup ==
    \E t \in {1} :
        \/ CallMaybeCleanup(t) \/ MaybeCleanupReturns(t)
        \/ CleanupCheckPersist(t) \/ UnlinkInput(t) \/ UnlinkOutput(t)

SpecCleanup == InitCleanup /\ [][NextCleanup]_vars

\* ============================== SpecCopy: GeminiClient._copy_profile_subset
\* The source profile is a tree of nodes.  Two entries of the allow-list stand
\* for the twelve (one usually a file, one usually a directory); under an
\* entry that is a directory there is a chain of nested nodes, MaxNest deep.
MaxNest == 2

ProfileSafeEntries == <<"cookies.sqlite", "storage">>

ChildName == "sub"

\* What a path of the source profile is.  A link_file points at a regular
\* file and a link_dir at a directory, both outside the profile; the target
\* of a link_dangling does not exist.
NodeKinds == {"absent", "file", "dir", "link_file", "link_dir", "link_dangling"}

\* The directory a link_dir points at holds one regular file.
LinkedDirListing == {"secret"}

Chain(e, n) == <<e>> \o [i \in 1..n |-> ChildName]

EntryPaths(e) == {Chain(e, n) : n \in 0..MaxNest}

ProfilePaths == UNION {EntryPaths(ProfileSafeEntries[i]) : i \in DOMAIN ProfileSafeEntries}

\* The entry e as k nested directories and then a node of kind leaf.
EntryTree(e, k, leaf) ==
    [p \in EntryPaths(e) |->
        IF Len(p) <= k THEN "dir" ELSE IF Len(p) = k + 1 THEN leaf ELSE "absent"]

EntryTrees(e) ==
    {EntryTree(e, k, leaf) : k \in 0..(MaxNest + 1), leaf \in NodeKinds \ {"dir"}}

\* Path.exists() and Path.is_dir() follow symbolic links, Path.is_symlink()
\* does not.
Exists(p) == profile[p] \in {"file", "dir", "link_file", "link_dir"}

IsSymlink(p) == profile[p] \in {"link_file", "link_dir", "link_dangling"}

IsDir(p) == profile[p] \in {"dir", "link_dir"}

Children(p) == IF Len(p) <= MaxNest THEN {p \o <<ChildName>>} ELSE {}

\* A node of the temporary profile; via tells whether the copy reached its
\* source through a symbolic link.
Copied(p, k, v) == [path |-> p, kind |-> k, via |-> v]

\* _safe_copy_file, line 243-251: a source that is itself a symbolic link is
\* skipped, any other is copied.
SafeCopyFile(p, via) == IF IsSymlink(p) THEN {} ELSE {Copied(p, "file", via)}

\* shutil.copytree called on a symbolic link to a directory (symlinks=False):
\* the directory behind the link is listed and each regular file of it is
\* handed to _safe_copy_file under the link's own path, where no component
\* tested by is_symlink() is a link.
CopyThroughLink(p) ==
    {Copied(p, "dir", TRUE)} \cup {Copied(p \o <<n>>, "file", TRUE) : n \in LinkedDirListing}

\* shutil.copytree(source, destination, copy_function=_safe_copy_file,
\* ignore_dangling_symlinks=True), line 221-227: symlinks is left False, so a
\* link that is not dangling is followed: into it when it is a directory, to
\* the copy function when it is not.
RECURSIVE CopyTree(_, _)
CopyTree(src, via) ==
    LET Entry(c) ==
            CASE profile[c] = "absent"        -> {}
              [] profile[c] = "link_dangling" -> {}
              [] profile[c] = "link_dir"      -> CopyThroughLink(c)
              [] profile[c] = "dir"           -> CopyTree(c, via)
              [] OTHER                        -> SafeCopyFile(c, via)
    IN  {Copied(src, "dir", via)} \cup UNION {Entry(c) : c \in Children(src)}

Source == <<ProfileSafeEntries[copyPos]>>

Copying == copyPos \in DOMAIN ProfileSafeEntries

CopyStep == /\ copyPos' = copyPos + 1
            /\ UNCHANGED <<profile, notFileVars, fileVars, stripVars, appVars, gsVars>>

\* Line 212-213: an entry that does not exist is passed over.
CopySkipMissing ==
    /\ Copying /\ ~Exists(Source)
    /\ CopyStep /\ UNCHANGED copied

\* Line 214-216: an entry that is a symbolic link is passed over.
CopySkipSymlink ==
    /\ Copying /\ Exists(Source) /\ IsSymlink(Source)
    /\ CopyStep /\ UNCHANGED copied

\* Line 217-227: an entry that is a directory is copied as a tree.
CopyDirectory ==
    /\ Copying /\ Exists(Source) /\ ~IsSymlink(Source) /\ IsDir(Source)
    /\ copied' = copied \cup CopyTree(Source, FALSE)
    /\ CopyStep

\* Line 228-230: any other entry is copied as a file.
CopyFile ==
    /\ Copying /\ Exists(Source) /\ ~IsSymlink(Source) /\ ~IsDir(Source)
    /\ copied' = copied \cup SafeCopyFile(Source, FALSE)
    /\ CopyStep

OthersIdle == ManagerIdle /\ PollIdle /\ CoordIdle /\ FilesIdle

\* _copy_profile_subset(profile_path, temp_dir) is entered with an empty
\* temporary directory and any source profile.
InitCopy ==
    /\ OthersIdle /\ StripIdle /\ AppIdle /\ GsIdle
    /\ \E t1 \in EntryTrees(ProfileSafeEntries[1]), t2 \in EntryTrees(ProfileSafeEntries[2]) :
          profile = [p \in ProfilePaths |-> IF p \in DOMAIN t1 THEN t1[p] ELSE t2[p]]
    /\ copied = {}
    /\ copyPos = 1

NextCopy == CopySkipMissing \/ CopySkipSymlink \/ CopyDirectory \/ CopyFile

SpecCopy == InitCopy /\ [][NextCopy]_vars

CopyDone == copyPos = Len(ProfileSafeEntries) + 1

\* ===================================== SpecStrip: strip_separator_lines
\* A text is a sequence of characters.  "k" stands for the word start or end
\* in any letter case, "x" for any character that is none of the others; the
\* newline is the only line boundary a text of the model holds.
MaxTextLen == 5

Chars == {"#", " ", "k", "x", "\n"}

SepTexts == UNION {[1..n -> Chars] : n \in 0..MaxTextLen}

\* str.splitlines(): the text cut at each newline; a newline that ends the
\* text ends the last line and starts no new one.
RECURSIVE splitlines(_)
splitlines(s) ==
    IF s = <<>> THEN <<>>
    ELSE IF \E i \in 1..Len(s) : s[i] = "\n"
         THEN LET i == CHOOSE i \in 1..Len(s) :
                           s[i] = "\n" /\ \A j \in 1..(i - 1) : s[j] # "\n"
              IN  <<SubSeq(s, 1, i - 1)>> \o splitlines(SubSeq(s, i + 1, Len(s)))
         ELSE <<s>>

\* str.strip(): leading and trailing whitespace is dropped.
RECURSIVE strip(_)
strip(s) ==
    IF s = <<>> THEN s
    ELSE IF Head(s) = " " THEN strip(Tail(s))
    ELSE IF s[Len(s)] = " " THEN strip(SubSeq(s, 1, Len(s) - 1))
    ELSE s

\* The pattern ^#+\s*(start|end)\s*#+$ of line 113 as the automaton it is:
\* state 0 before the first '#', 1 in the leading '#'s, 2 in the whitespace
\* before the word, 3 after the word, 4 in the closing '#'s, 5 no match.
PatternStep(q, c) ==
    CASE q = 0 /\ c = "#" -> 1
      [] q = 1 /\ c = "#" -> 1
      [] q = 1 /\ c = " " -> 2
      [] q = 1 /\ c = "k" -> 3
      [] q = 2 /\ c = " " -> 2
      [] q = 2 /\ c = "k" -> 3
      [] q = 3 /\ c = " " -> 3
      [] q = 3 /\ c = "#" -> 4
      [] q = 4 /\ c = "#" -> 4
      [] OTHER -> 5

RECURSIVE PatternRun(_, _)
PatternRun(q, s) == IF s = <<>> THEN q ELSE PatternRun(PatternStep(q, Head(s)), Tail(s))

\* pattern.match(line.strip()), line 115.
IsSeparator(line) == PatternRun(0, strip(line)) = 4

\* "\n".join(lines), line 120.
RECURSIVE join(_)
join(lines) ==
    IF lines = <<>> THEN <<>>
    ELSE IF Len(lines) = 1 THEN lines[1]
    ELSE lines[1] \o <<"\n">> \o join(Tail(lines))

\* str.endswith("\n").
EndsWithNewline(s) == s # <<>> /\ s[Len(s)] = "\n"

NotSeparator(line) == ~IsSeparator(line)

\* strip_separator_lines(text), line 109-123.
strip_separator_lines(text) ==
    IF text = <<>> THEN text
    ELSE LET lines == splitlines(text)
             filtered == SelectSeq(lines, NotSeparator)
             cleaned == join(filtered)
         IN  IF EndsWithNewline(text) /\ ~EndsWithNewline(cleaned)
                THEN cleaned \o <<"\n">>
                ELSE cleaned

CallStrip ==
    /\ sepState = "called"
    /\ sepResult' = strip_separator_lines(sepText)
    /\ sepState' = "returned"
    /\ UNCHANGED <<sepText, notFileVars, fileVars, copyVars, appVars, gsVars>>

\* strip_separator_lines is called with any text.
InitStrip ==
    /\ OthersIdle /\ CopyIdle /\ AppIdle /\ GsIdle
    /\ sepText \in SepTexts
    /\ sepResult = <<>>
    /\ sepState = "called"

NextStrip == CallStrip

SpecStrip == InitStrip /\ [][NextStrip]_vars

\* =================================== SpecApp: POST /api/v1/enhance (app.py)
\* The keys a request may present: the configured one and another.
Keys == {"secret", "wrong"}

\* An Authorization header: its scheme (the text before the first space,
\* "Bearer" when the header starts with "Bearer ") and the rest.  The header
\* left out and the empty header take the same branch of line 12.
NoAuthorization == [scheme |-> "", cred |-> ""]

AuthorizationHeaders ==
    {NoAuthorization}
        \cup [scheme : {"Bearer", "Basic"}, cred : Keys]
        \cup {[scheme |-> "Bearer", cred |-> ""]}

\* payload.mode after the validator of models.py line 39-45 ("": none).
PayloadModes == {"", "command", "selenium", "bogus"}

Requests ==
    [authorization : AuthorizationHeaders,
     x_api_key : Keys \cup {""},
     query_api_key : Keys \cup {""},
     prompt_empty : BOOLEAN,
     mode : PayloadModes]

NoResponse == [status |-> 0, error |-> "", message |-> ""]

\* What service.enhance may raise: an HTTPException, whose detail is a dict
\* or a string, or any other exception with a message of its own.
NoBackendExc == [kind |-> "none", status |-> 0, dict |-> FALSE, error |-> "", message |-> ""]

BackendHttpErrors ==
    [kind : {"HTTPException"}, status : {503}, dict : BOOLEAN,
     error : {"backend_down"}, message : {"", "backend is down"}]

BackendFailures ==
    [kind : {"RuntimeError", "TimeoutError"}, status : {0}, dict : {FALSE},
     error : {""}, message : {"/tmp/x_in.txt missing", "driver not initialized"}]

\* errors.http_error, line 6-8.
http_error(status_code, error_code, message) ==
    [kind |-> "HTTPException", status |-> status_code, dict |-> TRUE,
     error |-> error_code, message |-> message]

\* http_exc_handler, line 81-88.
DefaultCode(status) ==
    CASE status = 400 -> "invalid_request"
      [] status = 401 -> "unauthorized"
      [] status = 403 -> "forbidden"
      [] status = 404 -> "not_found"
      [] status = 500 -> "internal_error"
      [] status = 503 -> "service_unavailable"
      [] OTHER -> "error"

\* default_code.replace("_", " ").
DefaultMessage(status) ==
    CASE status = 400 -> "invalid request"
      [] status = 401 -> "unauthorized"
      [] status = 403 -> "forbidden"
      [] status = 404 -> "not found"
      [] status = 500 -> "internal error"
      [] status = 503 -> "service unavailable"
      [] OTHER -> "error"

\* http_exc_handler, line 78-101: the response rendered from an HTTPException.
http_exc_handler(e) ==
    IF e.dict
       THEN [status |-> e.status, error |-> e.error,
             message |-> IF e.message = "" THEN DefaultMessage(e.status) ELSE e.message]
       ELSE [status |-> e.status, error |-> DefaultCode(e.status),
             message |-> IF e.message = "" THEN DefaultMessage(e.status) ELSE e.message]

\* An authentication that lets the X-API-Key header win over Authorization.
extract_token_PrefersApiKey(r) ==
    IF r.x_api_key # "" THEN r.x_api_key
    ELSE IF r.authorization # NoAuthorization
         THEN IF r.authorization.scheme = "Bearer" THEN r.authorization.cred ELSE ""
         ELSE r.query_api_key

\* auth.extract_token, line 10-22.
extract_token(r) ==
    IF r.authorization # NoAuthorization
       THEN IF r.authorization.scheme # "Bearer" THEN "" ELSE r.authorization.cred
       ELSE IF r.x_api_key # "" THEN r.x_api_key
       ELSE r.query_api_key

Respond(r) ==
    /\ response' = r
    /\ appState' = "responded"

AppFrame == UNCHANGED <<api_key, cfg_mode, request, notFileVars, fileVars, copyVars, stripVars, gsVars>>

\* auth_dependency with no key configured, line 26-30.
AuthMisconfigured ==
    /\ appState = "received"
    /\ api_key = ""
    /\ Respond(http_exc_handler(http_error(500, "service_misconfigured", "service misconfigured")))
    /\ UNCHANGED <<lookups, enhanceCalls, backendExc>>
    /\ AppFrame

\* _auth, line 32-37: the dependency runs before the endpoint's body.
Auth ==
    /\ appState = "received"
    /\ api_key # ""
    /\ LET token == extract_token(request)
       IN  IF token = "" \/ token # api_key
              THEN Respond(http_exc_handler(http_error(401, "unauthorized", "unauthorized")))
              ELSE /\ appState' = "authorized"
                   /\ UNCHANGED response
    /\ UNCHANGED <<lookups, enhanceCalls, backendExc>>
    /\ AppFrame

\* enhance_endpoint, line 48-51: an empty prompt is refused.
EndpointValidate ==
    /\ appState = "authorized"
    /\ IF request.prompt_empty
          THEN Respond(http_exc_handler(http_error(400, "invalid_request", "prompt must not be empty")))
          ELSE /\ appState' = "valid"
               /\ UNCHANGED response
    /\ UNCHANGED <<lookups, enhanceCalls, backendExc>>
    /\ AppFrame

\* (payload.mode or cfg.enhancer.mode).lower(), line 53.
RequestedMode == IF request.mode # "" THEN request.mode ELSE cfg_mode

\* enhance_endpoint, line 54-57 with get_service, line 34-38: the backend is
\* looked up; the command backend was built by create_app (line 23-26).
EndpointGetService ==
    /\ appState = "valid"
    /\ lookups' = lookups + 1
    /\ IF RequestedMode \notin {"command", "selenium"}
          THEN Respond(http_exc_handler(http_error(400, "invalid_mode", "unsupported enhancement mode")))
          ELSE \E available \in BOOLEAN :
                  IF RequestedMode = "selenium" /\ ~available
                     THEN Respond(http_exc_handler(
                              http_error(503, "service_unavailable", "selenium unavailable")))
                     ELSE /\ appState' = "looked_up"
                          /\ UNCHANGED response
    /\ UNCHANGED <<enhanceCalls, backendExc>>
    /\ AppFrame

\* line 72-74: what the endpoint raises for a backend exception that is no
\* HTTPException.
EnhancementFailed_Leaks(e) == http_error(500, "enhancement_failed", e.message)

EnhancementFailed(e) == http_error(500, "enhancement_failed", "unable to enhance prompt")

\* enhance_endpoint, line 68-76: service.enhance is called.
EndpointEnhance ==
    /\ appState = "looked_up"
    /\ enhanceCalls' = enhanceCalls + 1
    /\ \E e \in {NoBackendExc} \cup BackendHttpErrors \cup BackendFailures :
          /\ backendExc' = e
          /\ IF e = NoBackendExc
                THEN Respond([status |-> 200, error |-> "", message |-> ""])
                ELSE IF e.kind = "HTTPException"
                        THEN Respond(http_exc_handler(e))
                        ELSE Respond(http_exc_handler(EnhancementFailed(e)))
    /\ UNCHANGED lookups
    /\ AppFrame

\* create_app(cfg) has returned and one request has arrived.
InitApp ==
    /\ OthersIdle /\ CopyIdle /\ StripIdle /\ GsIdle
    /\ api_key \in {"", "secret"}
    /\ cfg_mode \in {"command", "selenium"}
    /\ request \in Requests
    /\ response = NoResponse
    /\ appState = "received"
    /\ lookups = 0 /\ enhanceCalls = 0
    /\ backendExc = NoBackendExc

NextApp ==
    AuthMisconfigured \/ Auth \/ EndpointValidate \/ EndpointGetService \/ EndpointEnhance

SpecApp == InitApp /\ [][NextApp]_vars

\* ================================================================ properties
LiveBrowsers == {b \in 1..nBrowsers : quitCalls[b] = 0}

\* send_query() called by the caller itself has returned or raised.
SendQueryDone(t) == op[t].name = "send_query" /\ pc[t] = "idle"

\* The labels of an attempt's browser steps (line 141-145).
BrowserSteps == {"sq_open", "sq_find", "sq_submit", "sq_wait", "sq_extract"}

\* C1: send_query on a manager that was never initialized fails without any
\* browser interaction: during the call no browser process is started, no
\* profile copy is made and no page is opened, whatever max_retries is.
C1_UninitializedSendQueryTouchesNothing ==
    \A t \in Threads :
        (op[t].name = "send_query" /\ op[t].uninit) =>
            /\ nBrowsers = op[t].browsers0
            /\ nDirs = op[t].dirs0
            /\ ~op[t].opened
            /\ (pc[t] = "idle" => exc[t] # NoExc)

\* C2: with max_retries = 2, once attempt 1 has raised, attempt 2 performs no
\* browser step before close() has completed (quit() called on the old
\* driver, the old temporary profile untracked and its removal done) and
\* init_driver() has completed, and attempt 2 uses the new driver; and when
\* the final attempt raises, exactly the exception it raised reaches the
\* caller.
C2_RebuiltBeforeRetryAndLastErrorRaised ==
    \A t \in Threads :
        /\ (/\ op[t].name = "send_query"
            /\ loc[t].maxRetries = DefaultMaxRetries
            /\ loc[t].attempt = 1
            /\ pc[t] \in BrowserSteps \cup {"sq_loop"}) =>
               /\ op[t].closes >= 1 /\ op[t].recreations = 1
               /\ (op[t].prevDrv # None => quitCalls[op[t].prevDrv] >= 1)
               /\ (op[t].prevTmp # None =>
                      /\ rmCalls[op[t].prevTmp] >= 1
                      /\ temp # op[t].prevTmp
                      /\ (op[t].prevTmp \in disk => op[t].prevTmp \in rmFailed))
               /\ driver # None /\ driver > op[t].browsers0 /\ driver # op[t].prevDrv
               /\ quitCalls[driver] = 0
               /\ temp # None /\ temp > op[t].dirs0 /\ temp \in disk
               /\ (pc[t] \in BrowserSteps => loc[t].sqDrv = driver)
        /\ (/\ SendQueryDone(t)
            /\ loc[t].maxRetries >= 1
            /\ op[t].attempts = loc[t].maxRetries
            /\ op[t].lastRaised.at = loc[t].maxRetries) =>
               exc[t] = op[t].lastRaised

\* C2's case: attempt 1 of 2 failed on a live session, the session was
\* rebuilt, attempt 2 failed too and its error reached the caller.
C2_Witness ==
    /\ SendQueryDone(1)
    /\ loc[1].maxRetries = DefaultMaxRetries
    /\ op[1].attempts = 2
    /\ op[1].prevDrv # None /\ op[1].prevTmp # None
    /\ exc[1].at = 2

\* C3 as stated: an extraction failure is never retried: after it no session
\* is recreated and no further attempt is made, and it is what the caller gets.
C3_ExtractionFailureNeverRetried ==
    \A t \in Threads :
        (op[t].name = "send_query" /\ op[t].extractFailedAt > 0) =>
            /\ op[t].attempts = op[t].extractFailedAt
            /\ op[t].recreations = op[t].extractFailedAt - 1
            /\ (pc[t] = "idle" => exc[t].kind = "ExtractFailed")

\* C3 amended: an extraction failure is handled like any other failure of an
\* attempt: raised by the final attempt it reaches the caller unchanged;
\* raised by an earlier attempt the session is closed and re-initialized, and
\* either a further attempt is made or the re-initialization error is raised.
C3_ExtractionFailureRetriedUnlessLast ==
    \A t \in Threads :
        (SendQueryDone(t) /\ op[t].extractFailedAt > 0) =>
            IF op[t].extractFailedAt >= loc[t].maxRetries
               THEN /\ exc[t] = Exc("ExtractFailed", loc[t].maxRetries)
                    /\ op[t].recreations = loc[t].maxRetries - 1
               ELSE /\ op[t].recreations >= op[t].extractFailedAt
                    /\ op[t].closes >= op[t].extractFailedAt
                    /\ \/ op[t].attempts > op[t].extractFailedAt
                       \/ exc[t] # NoExc /\ exc[t].at = 0

\* C3's case: the extraction failed on attempt 1 of 2, the session was
\* recreated and attempt 2 returned a text.
C3_Witness ==
    /\ SendQueryDone(1)
    /\ op[1].extractFailedAt = 1
    /\ op[1].attempts = 2
    /\ op[1].recreations = 1
    /\ exc[1] = NoExc
    /\ loc[1].result > MinResponseLen

\* C6, granting that every directory removal succeeds: at most one browser
\* is started and not quit, and at most one temporary profile directory of
\* the manager is on disk.
C6_AtMostOneBrowserAndOneProfile ==
    rmFailed = {} =>
        /\ Cardinality(LiveBrowsers) <= 1
        /\ Cardinality(disk) <= 1

\* C7: once call_gemini has returned or raised, quit() has been called on
\* every browser its client started, and every temporary profile directory
\* the client made is gone unless its removal failed.
C7_CallGeminiLeaksNothing ==
    \A t \in Threads :
        pc[t] = "cg_done" =>
            /\ \A b \in 1..nBrowsers : quitCalls[b] >= 1
            /\ \A d \in disk : d \in rmFailed
            /\ driver = None /\ temp = None

\* C7's case: call_gemini ended after a failed attempt and a session recreation.
C7_Witness ==
    /\ pc[1] = "cg_done"
    /\ nBrowsers >= 2
    /\ nDirs >= 2
    /\ op[1].recreations = 1

\* C8: close() never raises and leaves the manager with no driver and no
\* tracked profile, whatever state it is called in and whether quit() or the
\* directory removal fails; and a close() called on a manager that holds
\* neither (as after a close()) changes nothing.
C8_CloseSafeAndIdempotent ==
    /\ [](\A t \in Threads :
              (op[t].name = "close" /\ pc[t] = "idle") =>
                  exc[t] = NoExc /\ driver = None /\ temp = None)
    /\ [][\A t \in Threads :
              (op'[t].name = "close" /\ op'[t].driver0 = None /\ op'[t].temp0 = None) =>
                  UNCHANGED <<driver, temp, nBrowsers, quitCalls, nDirs, disk, rmCalls, rmFailed>>]_vars

\* C8's case: a live session was closed, with a failed directory removal, and
\* close() was called again and has returned.
C8_Witness ==
    /\ op[1].name = "close" /\ pc[1] = "idle"
    /\ op[1].driver0 = None /\ op[1].temp0 = None
    /\ nBrowsers = 1 /\ quitCalls[1] = 1
    /\ rmFailed # {}
    /\ op[1].closes = 1

\* C9: however concurrent close() calls interleave, quit() is called at most
\* once on each driver handle and removal is attempted at most once for each
\* tracked profile directory.
C9_QuitAndRemoveAtMostOnce ==
    /\ \A b \in 1..nBrowsers : quitCalls[b] <= 1
    /\ \A d \in 1..nDirs : rmCalls[d] <= 1

\* C9's case: two close() calls in progress at once on a session that one of
\* them has quit and removed.
C9_Witness ==
    /\ op[1].name = "close" /\ op[2].name = "close"
    /\ pc[1] # "idle" /\ pc[2] # "idle"
    /\ nBrowsers = 1 /\ quitCalls[1] = 1
    /\ nDirs = 1 /\ rmCalls[1] = 1

\* The last n completed polls all read the same non-empty text.
SameTextOver(n) ==
    /\ Len(hist) >= n
    /\ hist[Len(hist)].text # ""
    /\ \A i \in (Len(hist) - n + 1)..Len(hist) : hist[i].text = hist[Len(hist)].text

\* C4 as stated: the wait has succeeded as soon as the same non-empty text
\* was read on 3 consecutive polls with no Stop button present.
C4_SuccessAfterThreeSamePolls ==
    (/\ pollState \in {"polling", "success"}
     /\ SameTextOver(RESPONSE_STABLE_CHECKS)
     /\ \A i \in (Len(hist) - RESPONSE_STABLE_CHECKS + 1)..Len(hist) : ~hist[i].stop)
        => pollState = "success"

\* C4 amended: the wait has succeeded as soon as the same non-empty text was
\* read on 4 consecutive completed polls (unchanged on 3 polls in a row after
\* the poll that first read it) and no Stop button is present at the last.
C4_SuccessAfterFourSamePolls ==
    (/\ SameTextOver(RESPONSE_STABLE_CHECKS + 1)
     /\ ~hist[Len(hist)].stop)
        => pollState = "success"

\* C4's case: the first four polls read the same text with no marker at all,
\* and the fourth ended the wait.
C4_Witness ==
    /\ pollState = "success"
    /\ polls = RESPONSE_STABLE_CHECKS + 1
    /\ SameTextOver(RESPONSE_STABLE_CHECKS + 1)
    /\ \A i \in DOMAIN hist : ~hist[i].stop /\ ~hist[i].mic

\* C5: the wait never succeeds at a poll whose text differs from the text of
\* the preceding completed poll: at success the text is non-empty and was the
\* same over the polls counted toward the threshold (the last 3 and the one
\* before them).
C5_SuccessOnlyOnUnchangedText ==
    pollState = "success" =>
        /\ stable_count >= RESPONSE_STABLE_CHECKS
        /\ SameTextOver(RESPONSE_STABLE_CHECKS + 1)
        /\ last_text = hist[Len(hist)].text

\* C5's case: the wait succeeded later than its first chance, after the
\* counter had been reset or a poll had failed, with both markers present.
C5_Witness ==
    /\ pollState = "success"
    /\ polls = MaxPolls
    /\ stable_count = RESPONSE_STABLE_CHECKS
    /\ hist[Len(hist)].stop /\ hist[Len(hist)].mic

\* C10: all get_service calls whose names normalize to the same supported
\* name returned the same instance; a cached entry is never replaced or
\* evicted; the cache holds entries for supported names only, one each.
C10_OneInstancePerBackend ==
    /\ [](/\ \A p, q \in returned :
                NormalizeMode(p[1]) = NormalizeMode(q[1]) => p[2] = q[2]
          /\ \A p \in returned :
                LET n == IF NormalizeMode(p[1]) = <<>> THEN default_mode
                                                        ELSE NormalizeMode(p[1])
                IN  n \in Supported /\ n \in DOMAIN services /\ services[n] = p[2]
          /\ DOMAIN services \subseteq Supported
          /\ \A m, n \in DOMAIN services : services[m] = services[n] => m = n)
    /\ [][\A n \in DOMAIN services :
              n \in DOMAIN services' /\ services'[n] = services[n]]_vars

\* C10's case: both backends are cached, and two differently written names
\* of one backend were each answered with its instance.
C10_Witness ==
    /\ DOMAIN services = Supported
    /\ callsLeft = 0
    /\ \E p, q \in returned :
          /\ p[1] # q[1]
          /\ p[1] # <<>> /\ q[1] # <<>>
          /\ NormalizeMode(p[1]) = NormalizeMode(q[1])
          /\ p[2] = q[2]

\* C11 as stated: get_service with any non-empty name that does not
\* normalize to a supported backend name fails with ModeNotSupportedError
\* naming the value it was given, runs no factory and leaves the cache as it
\* was.
C11_NonEmptyUnsupportedNameRejected ==
    [][(/\ callsLeft' < callsLeft
        /\ lastCall'.mode # <<>>
        /\ NormalizeMode(lastCall'.mode) \notin Supported) =>
           /\ lastCall'.outcome = "ModeNotSupportedError"
           /\ lastCall'.names = lastCall'.mode
           /\ UNCHANGED <<services, nInstances, factoryCalls, returned>>]_vars

\* C11 amended: get_service with any name whose normalized form (trimmed,
\* lowercased) is non-empty and not a supported backend name fails with
\* ModeNotSupportedError naming the value it was given, runs no factory and
\* leaves the cache as it was.
C11_UnsupportedNormalizedNameRejected ==
    [][(/\ callsLeft' < callsLeft
        /\ NormalizeMode(lastCall'.mode) # <<>>
        /\ NormalizeMode(lastCall'.mode) \notin Supported) =>
           /\ lastCall'.outcome = "ModeNotSupportedError"
           /\ lastCall'.names = lastCall'.mode
           /\ UNCHANGED <<services, nInstances, factoryCalls, returned>>]_vars

\* C11's case: with both backends cached, a name with a blank inside a
\* supported name was rejected.
C11_Witness ==
    /\ callsLeft < MaxCalls
    /\ lastCall.mode = <<"c", "o", "m", " ", "m", "a", "n", "d">>
    /\ lastCall.outcome = "ModeNotSupportedError"
    /\ DOMAIN services = Supported

\* C12: a get_service call whose factory raises ends with that error and
\* leaves the cache and the set of built backends as they were; and the next
\* get_service call for the same backend runs the factory again.
C12_FailedConstructionNotCached ==
    [][callsLeft' < callsLeft =>
          /\ lastCall'.outcome = "factory raised" =>
                /\ UNCHANGED <<services, nInstances, returned>>
                /\ Resolve(lastCall'.mode) \notin DOMAIN services'
          /\ (/\ callsLeft < MaxCalls
              /\ lastCall.outcome = "factory raised"
              /\ Resolve(lastCall'.mode) = Resolve(lastCall.mode)) =>
                /\ lastCall'.outcome \in {"returned", "factory raised"}
                /\ factoryCalls'[Resolve(lastCall.mode)] =
                       factoryCalls[Resolve(lastCall.mode)] + 1]_vars

\* C12's case: a backend's factory raised twice in a row, the third call for
\* it ran the factory again and its result is the cached instance.
C12_Witness ==
    /\ callsLeft < MaxCalls
    /\ lastCall.outcome = "returned"
    /\ Resolve(lastCall.mode) = SELENIUM
    /\ factoryCalls[SELENIUM] = 3
    /\ nInstances = 1
    /\ services[SELENIUM] = lastCall.instance

\* C13: construction fails exactly when the configured mode does not
\* normalize to a supported name, before anything is built; a coordinator
\* that exists has a supported default_mode, and a get_service call with an
\* empty name is never rejected: it is answered for the default backend.
C13_DefaultModeAlwaysSupported ==
    /\ coord = "ready" => default_mode \in Supported
    /\ coord = "failed" =>
          /\ default_mode \notin Supported
          /\ services = <<>> /\ nInstances = 0 /\ callsLeft = MaxCalls
    /\ (callsLeft < MaxCalls /\ NormalizeMode(lastCall.mode) = <<>>) =>
          /\ lastCall.outcome # "ModeNotSupportedError"
          /\ Resolve(lastCall.mode) = default_mode
          /\ default_mode \in Supported
          /\ lastCall.outcome = "returned" =>
                services[default_mode] = lastCall.instance

\* C13's case: construction with an empty configured mode has failed.
C13_Witness ==
    /\ coord = "failed"
    /\ default_mode = <<>>

\* ------------------------------------------------ resource pair claims
\* The two names of a pair are identical except for the suffix.
SameToken(pair) ==
    /\ pair.input_path[1] = pair.output_path[1]
    /\ pair.input_path[2] = pair.output_path[2]
    /\ pair.input_path[3] = InSuffix
    /\ pair.output_path[3] = OutSuffix

\* enhance() has returned or raised.
EnhanceDone(t) == fop[t].name = "enhance" /\ fpc[t] \in {"enh_done", "idle"}

\* C14: neither path of a pair returned by the durable allocation names a
\* file that was in the root directory when the allocation call began,
\* whatever the directory held and whatever timestamps the clock gave.
C14_NeverReusesExistingName ==
    \A t \in Threads :
        (fop[t].name = "allocate" /\ floc[t].temp_files # NoPair) =>
            /\ floc[t].temp_files.input_path \notin fop[t].files0
            /\ floc[t].temp_files.output_path \notin fop[t].files0

\* C15: a durable allocation makes at most 5 creation attempts; every
\* attempt that has ended without a pair collided with a name already
\* taken; after 5 collisions it fails with the allocation error and no pair;
\* and an attempt that created both files returned them at once as the pair,
\* with no attempt after it.
C15_AtMostFiveAttempts ==
    \A t \in Threads :
        fop[t].name = "allocate" =>
            /\ fop[t].attempts <= TEMP_CREATION_RETRIES
            /\ fop[t].collisions <= fop[t].attempts
            /\ fpc[t] = "alloc_loop" =>
                  fop[t].attempts = fop[t].collisions /\ floc[t].temp_files = NoPair
            /\ fexc[t] # "none" =>
                  /\ fexc[t] = "AllocationFailed"
                  /\ fop[t].attempts = TEMP_CREATION_RETRIES
                  /\ fop[t].collisions = TEMP_CREATION_RETRIES
                  /\ floc[t].temp_files = NoPair
            /\ (fop[t].collisions = TEMP_CREATION_RETRIES /\ fpc[t] \in {"alloc_ret", "idle"}) =>
                  fexc[t] = "AllocationFailed"
            /\ floc[t].temp_files # NoPair =>
                  /\ fpc[t] \in {"alloc_ret", "idle"}
                  /\ fexc[t] = "none"
                  /\ fop[t].attempts = fop[t].collisions + 1
                  /\ floc[t].temp_files =
                         TempFilePair(InputPath(floc[t].timestamp),
                                      OutputPath(floc[t].timestamp), TRUE)
                  /\ floc[t].temp_files.output_path \in files

\* C15's case: the second allocation on a root directory found a name taken
\* at each of its 5 attempts and failed.
C15_Witness ==
    /\ fop[1].name = "allocate"
    /\ fpc[1] = "alloc_ret"
    /\ fcallsLeft[1] = MaxAllocs - 2
    /\ fexc[1] = "AllocationFailed"
    /\ fop[1].collisions = TEMP_CREATION_RETRIES
    /\ handed # {}

\* C16: however concurrent durable allocations on one root directory
\* interleave, both files of a pair exist at the moment the pair is returned,
\* and no path is returned twice.
C16_ConcurrentAllocationSafe ==
    /\ [](\A p, q \in handed :
              p # q => {p[3], p[4]} \cap {q[3], q[4]} = {})
    /\ [][\A t \in Threads :
              (/\ fpc[t] # "alloc_ret" /\ fpc'[t] = "alloc_ret"
               /\ floc'[t].temp_files # NoPair) =>
                  /\ floc'[t].temp_files.input_path \in files'
                  /\ floc'[t].temp_files.output_path \in files']_vars

\* C17: once maybe_cleanup has been invoked on a transient pair neither of
\* its files exists; invoked on a persistent pair it removes nothing, so
\* that after an enhance with auto-cleanup disabled on an empty root
\* directory, whose script removed nothing, exactly the two durable files are
\* there.
C17_TransientRemovedDurableKept ==
    \A t \in Threads :
        (/\ fop[t].name = "enhance"
         /\ fop[t].cleanups >= 1
         /\ fpc[t] \in {"mc_ret", "enh_done", "idle"}) =>
            IF floc[t].temp_files.persist
               THEN /\ ~auto_cleanup
                    /\ files = fop[t].filesAtCleanup
                    /\ (fop[t].files0 = {} /\ fop[t].scriptRemoved = {}) =>
                          files = {floc[t].temp_files.input_path,
                                   floc[t].temp_files.output_path}
               ELSE /\ auto_cleanup
                    /\ floc[t].temp_files.input_path \notin files
                    /\ floc[t].temp_files.output_path \notin files
                    /\ files = fop[t].filesAtCleanup \
                                  {floc[t].temp_files.input_path,
                                   floc[t].temp_files.output_path}

\* C17's case: an enhance with auto-cleanup disabled on an empty root
\* directory has returned its text, and the two durable files are there.
C17_Witness ==
    /\ EnhanceDone(1)
    /\ fexc[1] = "none"
    /\ ~auto_cleanup
    /\ fop[1].files0 = {}
    /\ fop[1].cleanups = 1
    /\ floc[1].temp_files.persist
    /\ files = {floc[1].temp_files.input_path, floc[1].temp_files.output_path}

\* C18: in enhance, maybe_cleanup is invoked at most once, and when enhance
\* has returned or raised it has been invoked exactly once if a pair was
\* allocated (whichever step of the try block raised, or none) and not at
\* all if the allocation failed; what the try block raised is what enhance
\* raises; and with auto-cleanup enabled neither file of the allocated pair,
\* nor any other transient file made by the call, is left (a transient
\* allocation that itself fails is the subject of C38).
C18_CleanupOncePerAllocation ==
    \A t \in Threads :
        fop[t].name = "enhance" =>
            /\ fop[t].cleanups <= 1
            /\ EnhanceDone(t) =>
                  /\ floc[t].temp_files # NoPair => fop[t].cleanups = 1
                  /\ floc[t].temp_files = NoPair => fop[t].cleanups = 0
                  /\ floc[t].temp_files # NoPair => fexc[t] = fop[t].raised
                  /\ (auto_cleanup /\ floc[t].temp_files # NoPair) =>
                        /\ (files \cap TransientNames) \subseteq fop[t].files0
                        /\ floc[t].temp_files.input_path \notin files
                        /\ floc[t].temp_files.output_path \notin files

\* C18's case: with auto-cleanup enabled the script failed after removing
\* the input file, and enhance has raised.
C18_Witness ==
    /\ EnhanceDone(1)
    /\ auto_cleanup
    /\ fexc[1] = "ScriptFailed"
    /\ fop[1].cleanups = 1
    /\ fop[1].scriptRemoved = {floc[1].temp_files.input_path}

\* C19: maybe_cleanup never raises, whichever of the pair's files are
\* missing; when it returns on a transient pair neither file exists and no
\* other file was touched; on a persistent pair nothing was touched; and a
\* second call leaves the files as the first call left them.
C19_CleanupIdempotent ==
    \A t \in Threads :
        fop[t].name = "maybe_cleanup" =>
            /\ fexc[t] = "none"
            /\ (fpc[t] = "idle" /\ fop[t].cleanups >= 1) =>
                  /\ files = fop[t].filesAfterFirst
                  /\ IF floc[t].temp_files.persist
                        THEN files = fop[t].files0
                        ELSE files = fop[t].files0 \
                                        {floc[t].temp_files.input_path,
                                         floc[t].temp_files.output_path}

\* C19's case: maybe_cleanup was called twice on a transient pair whose
\* input file was missing and whose output file was there before the first
\* call.
C19_Witness ==
    /\ fop[1].name = "maybe_cleanup"
    /\ fpc[1] = "idle"
    /\ fop[1].cleanups = 2
    /\ ~floc[1].temp_files.persist
    /\ floc[1].temp_files.input_path \notin fop[1].files0
    /\ floc[1].temp_files.output_path \in fop[1].files0
    /\ floc[1].temp_files.output_path \notin files

\* C20 as stated: the two names of every pair an allocator returned, durable
\* or transient, are identical except for the _in.txt / _out.txt suffix.
C20_EveryPairSharesToken ==
    \A t \in Threads :
        floc[t].temp_files # NoPair => SameToken(floc[t].temp_files)

\* C20 amended: the two names of every pair the durable allocator returned
\* are identical except for the suffix (they carry one timestamp); the two
\* names of a transient pair end in _in.txt and _out.txt and lie in one
\* directory, each with a random part of its own.
C20_DurablePairSharesToken ==
    \A t \in Threads :
        floc[t].temp_files # NoPair =>
            /\ floc[t].temp_files.input_path[3] = InSuffix
            /\ floc[t].temp_files.output_path[3] = OutSuffix
            /\ floc[t].temp_files.input_path[1] = floc[t].temp_files.output_path[1]
            /\ floc[t].temp_files.persist =>
                  /\ SameToken(floc[t].temp_files)
                  /\ floc[t].temp_files.input_path[2] = floc[t].timestamp

\* C20's case: a durable pair was returned by an attempt that followed a
\* collision.
C20_Witness ==
    /\ fop[1].name = "enhance"
    /\ floc[1].temp_files # NoPair
    /\ floc[1].temp_files.persist
    /\ fop[1].collisions >= 1
    /\ SameToken(floc[1].temp_files)

\* ------------------------------------------------ profile isolation claims
\* C21: profile isolation never follows or copies a symbolic link: whatever
\* the source profile holds (a symlinked allow-list entry, a symlinked file or
\* a symlinked subdirectory nested anywhere inside an allow-listed directory),
\* nothing that is reached through a symbolic link appears in the copy.
C21_NothingCopiedThroughSymlink ==
    \A c \in copied : ~c.via

\* ------------------------------------------------- send_query claims (2)
\* C22: after polling, send_query raises the extraction error only when the
\* text read again is shorter than 10 characters, and a text it returns is at
\* least 10 characters long (a text of exactly 10 characters is returned).
C22_ExtractionThresholdIsTen ==
    \A t \in Threads :
        /\ (pc[t] = "sq_except" /\ exc[t].kind = "ExtractFailed"
               /\ loc[t].attempt + 1 >= loc[t].maxRetries)
             => loc[t].text < MinResponseLen
        /\ loc[t].result # -1 => loc[t].result >= MinResponseLen

\* C23: when the wait ends by timeout, it ends without raising and the
\* attempt goes on to extraction; from there the attempt returns the text
\* read if the text passes the length validation and raises the extraction
\* error, and nothing else, if it does not.
C23_TimeoutProceedsToExtraction ==
    /\ [][\A t \in Threads :
             pc[t] = "sq_wait" => pc'[t] = "sq_extract" /\ exc'[t] = NoExc]_vars
    /\ [][\A t \in Threads :
             (pc[t] = "sq_extract" /\ loc[t].waited = "timeout") =>
                \/ /\ ExtractAccepts(loc'[t].text)
                   /\ loc'[t].result = loc'[t].text
                   /\ exc'[t] = NoExc
                   /\ pc'[t] = Head(stack[t])
                \/ /\ ~ExtractAccepts(loc'[t].text)
                   /\ pc'[t] = "sq_except"
                   /\ exc'[t].kind = "ExtractFailed"]_vars

\* A send_query whose wait timed out has returned the text it read.
C23_Witness ==
    /\ pc[1] = "idle" /\ op[1].name = "send_query"
    /\ loc[1].waited = "timeout"
    /\ loc[1].result = loc[1].text /\ loc[1].result # -1
    /\ exc[1] = NoExc

\* -------------------------------------------------- init_driver claims (2)
\* The failures of init_driver that C24 is about: securing the directory,
\* copying the entries and stripping the locks, starting the browser.
IsolationOrStartFailures == {"ChmodFailed", "CopyFailed", "FirefoxFailed"}

\* C24: when init_driver fails during profile isolation or when starting the
\* browser fails, then at the moment the error propagates (and for as long as
\* it does) the temporary directory made by that call is not tracked by the
\* manager and is gone from the disk, unless its removal itself failed.
C24_FailedInitLeavesNoProfile ==
    \A t \in Threads :
        exc[t].kind \in IsolationOrStartFailures =>
            /\ loc[t].newDir # None
            /\ temp # loc[t].newDir
            /\ loc[t].newDir \in disk => loc[t].newDir \in rmFailed

\* init_driver has failed to start the browser and its directory is gone.
C24_Witness ==
    /\ pc[1] = "idle" /\ op[1].name = "init_driver"
    /\ exc[1].kind = "FirefoxFailed"
    /\ loc[1].newDir # None /\ loc[1].newDir \notin disk /\ temp = None

\* A call in progress holds the handle b: init_driver is about to store it,
\* or close() has taken it out and is about to quit it.
Held(b) ==
    \E t \in Threads :
        \/ pc[t] = "init_set" /\ loc[t].newDrv = b
        \/ pc[t] = "close_quit" /\ loc[t].drv = b

\* The browser b was started, was never quit, and neither the manager nor a
\* call in progress refers to it.
Orphaned(b) == b \in LiveBrowsers /\ driver # b /\ ~Held(b)

\* C25: concurrent use of one manager is unsafe.  Two concurrent init_driver
\* calls can leave a started browser that the manager no longer refers to
\* (C25_Witness), and such a browser is never quit afterwards: no later step
\* of any close() or init_driver() call reaches it.
C25_OrphanedBrowserIsNeverQuit ==
    [][\A b \in 1..nBrowsers : Orphaned(b) => Orphaned(b)']_vars

\* Both callers have finished init_driver() and close(), and a browser that
\* one of them started is still running.
C25_Witness ==
    /\ \A t \in Threads : pc[t] = "idle" /\ opsLeft[t] = 0
    /\ \E b \in 1..nBrowsers : Orphaned(b)

\* C25's other case: a caller is about to start its browser on a temporary
\* profile that the other caller's init_driver has removed, with no removal
\* of that directory having failed.
C25_ProfileRemovedBeforeLaunch ==
    \E t \in Threads :
        /\ pc[t] = "init_firefox"
        /\ loc[t].newDir \notin disk

\* ------------------------------------------------ text cleanup claim
\* The result C26 describes: the lines of the input that are not separator
\* markers, in their order, joined by newlines, and the trailing newline of
\* the input kept.
NonSeparatorLinesOf(text) ==
    join(SelectSeq(splitlines(text), NotSeparator))
        \o (IF EndsWithNewline(text) THEN <<"\n">> ELSE <<>>)

\* C26: strip_separator_lines returns exactly the lines of its input that
\* are not separator markers, in their original order joined by newlines,
\* with a trailing newline when the input ended with one.
C26_ReturnsNonSeparatorLines ==
    sepState = "returned" => sepResult = NonSeparatorLinesOf(sepText)

\* ------------------------------------------------------ endpoint claims
\* The token a request presents, in C27's words: the Bearer Authorization
\* header, else the X-API-Key header, else the api_key query parameter.
PresentedToken(r) ==
    IF r.authorization.scheme = "Bearer" THEN r.authorization.cred
    ELSE IF r.x_api_key # "" THEN r.x_api_key
    ELSE r.query_api_key

\* C27: with a non-empty configured API key, a request whose presented token
\* is missing or differs from the configured key is answered 401
\* unauthorized, and at no moment of its handling is a backend looked up or
\* an enhance operation invoked.
C27_BadTokenAnswered401 ==
    (/\ appState # "off" /\ api_key # ""
     /\ (PresentedToken(request) = "" \/ PresentedToken(request) # api_key))
        => /\ lookups = 0 /\ enhanceCalls = 0
           /\ appState \in {"received", "responded"}
           /\ appState = "responded" =>
                 response = [status |-> 401, error |-> "unauthorized", message |-> "unauthorized"]

\* A request with a wrong Bearer token and the right key in X-API-Key has
\* been answered 401.
C27_Witness ==
    /\ appState = "responded"
    /\ api_key = "secret"
    /\ request.authorization = [scheme |-> "Bearer", cred |-> "wrong"]
    /\ request.x_api_key = "secret"
    /\ response.status = 401 /\ lookups = 0 /\ enhanceCalls = 0

\* C28: for an authorized, valid request, whatever exception other than an
\* HTTP error the backend's enhance raises, the response is status 500 with
\* error 'enhancement_failed' and message 'unable to enhance prompt': the
\* response does not depend on the exception's type or message.
C28_BackendFailureAnsweredUniformly ==
    (/\ appState = "responded" /\ enhanceCalls = 1
     /\ backendExc.kind \notin {"none", "HTTPException"})
        => response = [status |-> 500, error |-> "enhancement_failed",
                       message |-> "unable to enhance prompt"]

\* The backend raised a TimeoutError with a message of its own and the
\* request was answered 500.
C28_Witness ==
    /\ appState = "responded" /\ enhanceCalls = 1
    /\ backendExc.kind = "TimeoutError" /\ backendExc.message = "driver not initialized"
    /\ response.status = 500

\* ------------------------------------------------- init_driver claims (3)
\* init_driver() was called by the caller itself while a session was live.
ReinitCall(t) == op[t].name = "init_driver" /\ op[t].driver0 # None

\* The errors init_driver raises from the steps that follow the closing of
\* the existing session.
NewSessionFailures ==
    {"NoProfile", "ChmodFailed", "CopyFailed", "ServiceFailed", "FirefoxFailed"}

\* C29: init_driver called while a session is live never fails because of
\* that session (an error it raises comes from building the new session);
\* by the time the new temporary profile exists, and so by the time the new
\* browser is started, quit() has been invoked on the previous driver and the
\* previous temporary profile has been removed (or its removal has failed);
\* and when the call succeeds the manager tracks the new driver and the new
\* temporary profile, both different from the previous ones.
C29_ReinitTearsDownFirst ==
    \A t \in Threads :
        ReinitCall(t) =>
            /\ exc[t] # NoExc => exc[t].kind \in NewSessionFailures
            /\ (loc[t].newDir # None \/ loc[t].newDrv # None) =>
                  /\ quitCalls[op[t].driver0] >= 1
                  /\ op[t].temp0 # None
                  /\ op[t].temp0 \in disk => op[t].temp0 \in rmFailed
            /\ (pc[t] = "idle" /\ exc[t] = NoExc) =>
                  /\ driver = loc[t].newDrv /\ driver \notin {None, op[t].driver0}
                  /\ temp = loc[t].newDir /\ temp \notin {None, op[t].temp0}
                  /\ quitCalls[driver] = 0 /\ temp \in disk

\* init_driver() called on a live session has succeeded: the previous
\* browser was quit, the previous profile is gone, the new ones are tracked.
C29_Witness ==
    /\ ReinitCall(1) /\ pc[1] = "idle" /\ exc[1] = NoExc
    /\ driver = loc[1].newDrv /\ temp = loc[1].newDir
    /\ quitCalls[op[1].driver0] = 1
    /\ op[1].temp0 \notin disk

\* ------------------------------------------------- send_query claims (3)
\* send_query(text, max_retries) with max_retries >= 1 is the call in
\* progress, or the call that ended last.
RetryingCall(t) == op[t].name = "send_query" /\ loc[t].maxRetries >= 1

\* C30: for every max_retries >= 1 and every pattern of step failures,
\* send_query makes at most max_retries attempts and at most max_retries - 1
\* recreations of the session, and it always terminates: the call in
\* progress eventually ends, with a text returned or an exception raised.
C30_BoundedRetriesAndTermination ==
    /\ [](\A t \in Threads :
             RetryingCall(t) =>
                /\ op[t].attempts <= loc[t].maxRetries
                /\ op[t].recreations <= loc[t].maxRetries - 1
                /\ pc[t] = "idle" => (exc[t] = NoExc) = (loc[t].result # -1))
    /\ \A t \in Threads :
          (RetryingCall(t) /\ pc[t] # "idle") ~> (RetryingCall(t) /\ pc[t] = "idle")

\* send_query(text, 3) has used its three attempts and two recreations and
\* has raised.
C30_Witness ==
    /\ RetryingCall(1) /\ pc[1] = "idle"
    /\ loc[1].maxRetries = MaxRetryArg
    /\ op[1].attempts = MaxRetryArg /\ op[1].recreations = MaxRetryArg - 1
    /\ exc[1] # NoExc

\* A step that is one completed poll (line 376-393 ran without raising).
CompletedPoll == polls' = polls + 1 /\ lastPoll' = "read"

\* The poll just completed read the same text as the completed poll before it.
TextUnchanged == hist # <<>> /\ hist'[Len(hist')].text = hist[Len(hist)].text

\* C31 as stated: every completed poll adds one to the counter when its text
\* is the same as the text of the previous completed poll, and sets the
\* counter to zero otherwise.
C31_IncrementedWhenUnchanged ==
    [][CompletedPoll =>
          stable_count' = IF TextUnchanged THEN stable_count + 1 ELSE 0]_vars

\* C31 amended: every completed poll adds one to the counter when its text is
\* non-empty and the same as the text of the previous completed poll, and
\* sets the counter to zero otherwise (an empty text never counts).
C31_IncrementedWhenUnchangedAndNonEmpty ==
    [][CompletedPoll =>
          stable_count' = IF TextUnchanged /\ hist'[Len(hist')].text # ""
                             THEN stable_count + 1 ELSE 0]_vars

\* C31's case: the text changed after the counter had counted, and the
\* counter is back at zero while the wait goes on.
C31_Witness ==
    /\ pollState = "polling"
    /\ lastPoll = "read"
    /\ Len(hist) >= 3
    /\ hist[Len(hist) - 2].text = hist[Len(hist) - 1].text
    /\ hist[Len(hist) - 1].text # ""
    /\ hist[Len(hist)].text \notin {"", hist[Len(hist) - 1].text}
    /\ stable_count = 0

\* C32: the wait reports success only at a completed poll at which the
\* counter has reached the threshold of 3 and the Stop button is absent or
\* the microphone button is present; never at a poll that saw the Stop button
\* and no microphone button.
C32_SuccessNeedsThresholdAndMarkers ==
    pollState = "success" =>
        /\ lastPoll = "read"
        /\ stable_count >= RESPONSE_STABLE_CHECKS
        /\ ~hist[Len(hist)].stop \/ hist[Len(hist)].mic
        /\ ~(hist[Len(hist)].stop /\ ~hist[Len(hist)].mic)

\* C32's case: the Stop button was there on every poll; the wait went on past
\* the threshold and ended at the first poll that also saw the microphone
\* button.
C32_Witness ==
    /\ pollState = "success"
    /\ stable_count > RESPONSE_STABLE_CHECKS
    /\ \A i \in DOMAIN hist : hist[i].stop
    /\ hist[Len(hist)].mic
    /\ ~hist[Len(hist) - 1].mic

\* A step that is one iteration whose page read raised (line 394-395).
FailedPoll == polls' = polls + 1 /\ lastPoll' = "raised"

\* C40: an iteration that raises while reading the page leaves the counter
\* and the last recorded text as they were and the wait goes on; the completed
\* poll after a failed one still adds one to the counter when it reads the
\* same non-empty text as the completed poll before the failure.
C40_FailedPollKeepsCount ==
    [][/\ FailedPoll =>
            /\ stable_count' = stable_count
            /\ last_text' = last_text
            /\ pollState = "polling" /\ pollState' = "polling"
       /\ (CompletedPoll /\ lastPoll = "raised" /\ TextUnchanged
              /\ hist'[Len(hist')].text # "") =>
            stable_count' = stable_count + 1]_vars

\* C40's case: an iteration has just failed after two polls had counted, and
\* the counter and the recorded text are still those of the last completed
\* poll.
C40_Witness ==
    /\ pollState = "polling"
    /\ lastPoll = "raised"
    /\ stable_count = RESPONSE_STABLE_CHECKS - 1
    /\ last_text # "" /\ last_text = hist[Len(hist)].text

\* send_query() returned a text to caller t from its first attempt.
FirstAttemptSucceeded(t) ==
    /\ op[t].name = "send_query"
    /\ pc[t] = "idle"
    /\ exc[t] = NoExc
    /\ loc[t].result >= 0
    /\ op[t].attempts = 1

\* C33: after a send_query that succeeded on its first attempt the manager
\* holds the driver handle and tracks the temp profile directory it had when
\* the call began; close() and init_driver() were not called, no browser was
\* started or quit and no directory was made or removed.
C33_FirstAttemptSuccessKeepsSession ==
    FirstAttemptSucceeded(1) =>
        /\ driver = op[1].driver0 /\ driver # None
        /\ temp = op[1].temp0
        /\ op[1].closes = 0 /\ op[1].recreations = 0
        /\ nBrowsers = op[1].browsers0 /\ nDirs = op[1].dirs0
        /\ quitCalls[driver] = 0
        /\ temp # None => (temp \in disk /\ rmCalls[temp] = 0)

\* C33's case: a send_query that may retry returned a text from its first
\* attempt on a session started by init_driver.
C33_Witness ==
    /\ FirstAttemptSucceeded(1)
    /\ loc[1].maxRetries = DefaultMaxRetries
    /\ driver # None /\ temp # None

\* C37: once init_driver has raised to its caller, whatever step failed, the
\* manager holds no driver and tracks no temporary profile directory, and no
\* directory made by that call is on disk (unless its removal itself failed).
C37_AnyFailedInitLeavesNothing ==
    \A t \in Threads :
        (op[t].name = "init_driver" /\ pc[t] = "idle" /\ exc[t] # NoExc) =>
            /\ driver = None
            /\ temp = None
            /\ \A d \in (op[t].dirs0 + 1)..nDirs : d \in disk => d \in rmFailed

\* The errors init_driver raises.
InitFailures == NewSessionFailures \cup {"SeleniumUnavailable"}

\* init_driver(), called by send_query's handler, has raised into it.
ReinitJustFailed(t) ==
    op[t].name = "send_query" /\ pc[t] = "sq_after_init" /\ exc[t] # NoExc

\* send_query has raised an error of init_driver to its caller.
RaisedReinitFailure(t) ==
    op[t].name = "send_query" /\ pc[t] = "idle" /\ exc[t].kind \in InitFailures

\* C39: when the re-initialization after a failed non-final attempt fails,
\* send_query's next step is to raise that error to its caller, and it is
\* not the error of the failed attempt; no attempt is made after the failed
\* re-initialization (every attempt made was followed by a re-initialization)
\* and the manager holds no driver.
C39_FailedReinitEndsTheCall ==
    /\ [](\A t \in Threads :
            (ReinitJustFailed(t) \/ RaisedReinitFailure(t)) =>
                /\ exc[t].kind \in InitFailures
                /\ op[t].lastRaised # NoExc /\ exc[t] # op[t].lastRaised
                /\ op[t].attempts = op[t].recreations
                /\ op[t].attempts < loc[t].maxRetries
                /\ driver = None)
    /\ [][\A t \in Threads :
            ReinitJustFailed(t) =>
                /\ pc'[t] = "idle" /\ exc'[t] = exc[t]
                /\ op'[t] = op[t] /\ driver' = None]_vars

\* C39's case: the second attempt of three failed, the second
\* re-initialization failed to start the browser, and send_query raised that
\* error without making the third attempt.
C39_Witness ==
    /\ RaisedReinitFailure(1)
    /\ exc[1].kind = "FirefoxFailed"
    /\ loc[1].maxRetries = 3
    /\ op[1].attempts = 2 /\ op[1].recreations = 2
    /\ op[1].driver0 # None

\* C34 as stated: atexit.register is called at most once for the manager,
\* and whenever the manager tracks a temporary profile directory the hook has
\* been registered.
C34_RegisteredOnceNoLaterThanTracking ==
    /\ atexitCalls <= 1
    /\ temp # None => atexitCalls = 1

\* C34 amended: atexit.register is called at most once for the manager, and
\* the hook is registered by the statement that follows the first tracking of
\* a temporary profile directory: whenever a directory is tracked the hook
\* has been registered, or the caller that tracked it is at that statement
\* and registers it with its next step.
C34_RegisteredOnceRightAfterTracking ==
    /\ [](/\ atexitCalls <= 1
          /\ atexitRegistered <=> atexitCalls = 1
          /\ temp # None => (atexitCalls = 1 \/ pc[1] = "prep_atexit"))
    /\ [][pc[1] = "prep_atexit" => atexitCalls' = 1]_vars

\* C34's case: a send_query retry has re-initialized a session that an
\* earlier init_driver had started; the manager tracks its second directory
\* and the hook has been registered once.
C34_Witness ==
    /\ op[1].name = "send_query" /\ op[1].recreations >= 1
    /\ op[1].temp0 # None
    /\ temp # None /\ temp # op[1].temp0
    /\ pc[1] = "idle"
    /\ atexitCalls = 1

\* C35: every file that was in the root directory when a durable allocation
\* call began is still there while the call runs and after it has returned a
\* pair or failed, whichever of the two names collided.
C35_KeepsFilesItDidNotCreate ==
    \A t \in Threads :
        fop[t].name = "allocate" => fop[t].files0 \subseteq files

\* C38: when create_transient_temp_file_pair has raised, whichever step
\* failed (the creation of either file or os.chmod on either file), none of
\* the files it created is on disk: the temp directory holds what it held when
\* the call began.
C38_FailedTransientPairLeavesNoFile ==
    \A t \in Threads :
        (/\ fop[t].name = "enhance" /\ auto_cleanup
         /\ fpc[t] = "alloc_ret"
         /\ fexc[t] \in {"TempFileFailed", "ChmodFailed"}) =>
            files = fop[t].files0

\* C36: whatever the interleaving of the workers' get_service calls, at most
\* one backend instance is ever constructed for a backend name, and all calls
\* whose names normalize to the same backend return the same instance.
C36_ConcurrentCallsShareOneInstance ==
    /\ \A i, j \in DOMAIN builtFor : builtFor[i] = builtFor[j] => i = j
    /\ \A p, q \in returned : Resolve(p[1]) = Resolve(q[1]) => p[2] = q[2]

====
